---- MODULE Spec2Model ----
(***************************************************************************)
(* Light L16 Remote Management Interface: the device server's session      *)
(* loop (src/server/rmi.c), the framing codec (src/protocol) and the       *)
(* desktop client's session worker (src/client/src/rmi_client.cpp),        *)
(* connected by two byte streams (one TCP connection).                     *)
(*                                                                         *)
(* Payloads and streams are sequences of byte values 0..255; protocol      *)
(* texts are written as their ASCII codes.                                 *)
(***************************************************************************)
EXTENDS Integers, Sequences, FiniteSets, TLC

\* ------------------------------------------------------------------------
\* Bounds of the model
\* ------------------------------------------------------------------------

\* frames an arbitrary client may write to the server in one run (SpecServer)
MaxFrames == 3
\* connections the server accepts in one run
MaxConns == 2
\* idle HEARTBEAT frames the server emits in one run
MaxBeats == 1

\* operations the caller of RmiClient requests after its first connect()
MaxOps == 2

\* frames the arbitrary peer of the client writes
MaxPeer == 3

\* heartbeat frames put in front of a reply
MaxSkip == 2

\* ------------------------------------------------------------------------
\* Protocol texts (src/protocol/rmi_protocol.h) and server reply texts
\* ------------------------------------------------------------------------

RMI_FRAME_HEADER_SIZE == 4

RMI_CMD_AUTH == <<65, 85, 84, 72>>
RMI_CMD_QUIT == <<81, 85, 73, 84>>
RMI_CMD_RESTART == <<82, 69, 83, 84, 65, 82, 84>>
RMI_CMD_VERSION == <<86, 69, 82, 83, 73, 79, 78>>
RMI_CMD_PRESS == <<80, 82, 69, 83, 83>>
RMI_CMD_PRESS_INPUT == <<80, 82, 69, 83, 83, 95, 73, 78, 80, 85, 84>>
RMI_CMD_OPEN == <<79, 80, 69, 78>>
RMI_CMD_UPLOAD == <<85, 80, 76, 79, 65, 68>>
RMI_CMD_LIST == <<76, 73, 83, 84>>
RMI_CMD_DOWNLOAD == <<68, 79, 87, 78, 76, 79, 65, 68>>
RMI_CMD_DELETE == <<68, 69, 76, 69, 84, 69>>
RMI_CMD_SCREENCAP == <<83, 67, 82, 69, 69, 78, 67, 65, 80>>
RMI_CMD_HEARTBEAT == <<72, 69, 65, 82, 84, 66, 69, 65, 84>>
RMI_RESP_OK == <<79, 75>>
RMI_RESP_ERR_PREFIX == <<69, 82, 82>>
RMI_RESP_VERSION_PREFIX == <<86, 69, 82, 83, 73, 79, 78, 32>>

\* "ERR auth required", "ERR auth failed", "ERR restart", "ERR version", ...
ERR_auth_required == <<69, 82, 82, 32, 97, 117, 116, 104, 32, 114, 101, 113, 117, 105, 114, 101, 100>>
ERR_auth_failed == <<69, 82, 82, 32, 97, 117, 116, 104, 32, 102, 97, 105, 108, 101, 100>>
ERR_restart == <<69, 82, 82, 32, 114, 101, 115, 116, 97, 114, 116>>
ERR_version == <<69, 82, 82, 32, 118, 101, 114, 115, 105, 111, 110>>
ERR_press == <<69, 82, 82, 32, 112, 114, 101, 115, 115>>
ERR_upload == <<69, 82, 82, 32, 117, 112, 108, 111, 97, 100>>
ERR_list == <<69, 82, 82, 32, 108, 105, 115, 116>>
ERR_download == <<69, 82, 82, 32, 100, 111, 119, 110, 108, 111, 97, 100>>
ERR_delete == <<69, 82, 82, 32, 100, 101, 108, 101, 116, 101>>
ERR_screencap == <<69, 82, 82, 32, 115, 99, 114, 101, 101, 110, 99, 97, 112>>
ERR_unknown_command == <<69, 82, 82, 32, 117, 110, 107, 110, 111, 119, 110, 32, 99, 111, 109, 109, 97, 110, 100>>

\* "l16" / "l16": the credentials of the default configuration file
RMI_DEFAULT_USER == <<108, 49, 54>>
RMI_DEFAULT_PASS == <<108, 49, 54>>

\* the compiled-in version number (rmi_version.h)
RMI_VERSION == 42

\* sizeof(cmd) in handle_rmi_client
CMD_BUF_SIZE == 1024

\* ------------------------------------------------------------------------
\* Bytes, C strings, numbers
\* ------------------------------------------------------------------------

Min(a, b) == IF a < b THEN a ELSE b

\* the first n elements of s, and s without them
Take(s, n) == SubSeq(s, 1, Min(n, Len(s)))
Drop(s, n) == SubSeq(s, Min(n, Len(s)) + 1, Len(s))

\* rmi_write_be32: the 4 header bytes of a u32
rmi_write_be32(value) ==
    << (value \div 16777216) % 256, (value \div 65536) % 256,
       (value \div 256) % 256, value % 256 >>

\* rmi_read_be32: the u32 of 4 header bytes
rmi_read_be32(data) ==
    (data[1] * 16777216) + (data[2] * 65536) + (data[3] * 256) + data[4]

\* rmi_payload_equals: same length and same bytes
rmi_payload_equals(payload, text) ==
    /\ Len(payload) = Len(text)
    /\ \A i \in 1..Len(text) : payload[i] = text[i]

\* rmi_payload_starts_with: at least as long, and the first bytes agree
rmi_payload_starts_with(payload, text) ==
    /\ Len(payload) >= Len(text)
    /\ \A i \in 1..Len(text) : payload[i] = text[i]

\* a buffer read as a C string: the bytes before the first NUL
CStr(buf) ==
    IF \E i \in 1..Len(buf) : buf[i] = 0
    THEN SubSeq(buf, 1, (CHOOSE i \in 1..Len(buf) :
                            buf[i] = 0 /\ \A j \in 1..(i - 1) : buf[j] # 0) - 1)
    ELSE buf

\* strtok_r(s, " \t", ...) applied until it returns NULL: the tokens of s
IsDelim(b) == b = 32 \/ b = 9

RECURSIVE Tokens(_)
Tokens(s) ==
    IF s = <<>> THEN <<>>
    ELSE IF IsDelim(s[1]) THEN Tokens(Tail(s))
    ELSE LET stops == {i \in 1..Len(s) : IsDelim(s[i])}
             e == IF stops = {} THEN Len(s) + 1
                  ELSE CHOOSE i \in stops : \A j \in stops : i <= j
         IN <<SubSeq(s, 1, e - 1)>> \o Tokens(SubSeq(s, e + 1, Len(s)))

IsDigit(b) == b >= 48 /\ b <= 57

\* KEY_MAX of linux/input.h (0x2ff)
KEY_MAX == 767

\* the chunk buffers (char buf[4096]) of the server's transfer loops
CHUNK == 4096

RECURSIVE DigitsValue(_)
DigitsValue(s) ==
    IF s = <<>> THEN 0
    ELSE DigitsValue(SubSeq(s, 1, Len(s) - 1)) * 10 + (s[Len(s)] - 48)

\* std::to_string / printf("%u"): the decimal text of a natural number
RECURSIVE ToDecimal(_)
ToDecimal(n) ==
    IF n < 10 THEN <<48 + n>>
    ELSE ToDecimal(n \div 10) \o <<48 + (n % 10)>>

\* Decimal texts are compared as texts, so that numbers beyond the model's
\* integers (u32 sizes, 64-bit longs) keep their meaning.
RECURSIVE StripZeros(_)
StripZeros(s) ==
    IF Len(s) > 1 /\ s[1] = 48 THEN StripZeros(Tail(s)) ELSE s

RECURSIVE LexLeq(_, _)
LexLeq(a, b) ==
    IF a = <<>> THEN TRUE
    ELSE IF a[1] # b[1] THEN a[1] < b[1]
    ELSE LexLeq(Tail(a), Tail(b))

\* digits a <= digits b, as numbers
DecLeq(a, b) ==
    LET x == StripZeros(a)
        y == StripZeros(b)
    IN IF Len(x) # Len(y) THEN Len(x) < Len(y) ELSE LexLeq(x, y)

\* "4294967295", "9223372036854775807", "9223372036854775808",
\* "18446744073709551615"
DEC_UINT32_MAX == <<52, 50, 57, 52, 57, 54, 55, 50, 57, 53>>
DEC_LONG_MAX == <<57, 50, 50, 51, 51, 55, 50, 48, 51, 54, 56, 53, 52, 55, 55, 53, 56, 48, 55>>
DEC_LONG_MIN_MAG == <<57, 50, 50, 51, 51, 55, 50, 48, 51, 54, 56, 53, 52, 55, 55, 53, 56, 48, 56>>
DEC_ULONG_MAX == <<49, 56, 52, 52, 54, 55, 52, 52, 48, 55, 51, 55, 48, 57, 53, 53, 49, 54, 49, 53>>

HasSign(tok) == tok # <<>> /\ (tok[1] = 43 \/ tok[1] = 45)
IsNegative(tok) == tok # <<>> /\ tok[1] = 45
Magnitude(tok) == IF HasSign(tok) THEN Tail(tok) ELSE tok
AllDigits(s) == s # <<>> /\ \A i \in 1..Len(s) : IsDigit(s[i])

\* the low 32 bits of the number written by digits s, as two 16-bit limbs
RECURSIVE Low32(_)
Low32(s) ==
    IF s = <<>> THEN [hi |-> 0, lo |-> 0]
    ELSE LET r == Low32(SubSeq(s, 1, Len(s) - 1))
             l == (r.lo * 10) + (s[Len(s)] - 48)
         IN [hi |-> ((r.hi * 10) + (l \div 65536)) % 65536, lo |-> l % 65536]

\* two's complement negation of a 32-bit value in limbs
Neg32(r) ==
    IF r.hi = 0 /\ r.lo = 0 THEN r
    ELSE [hi |-> ((65535 - r.hi) + (IF r.lo = 0 THEN 1 ELSE 0)) % 65536,
          lo |-> (65536 - r.lo) % 65536]

\* strtol(tok, &end, 10) on a 64-bit long with the callers' checks
\* errno == 0 && end != tok && *end == '\0', followed by the cast (int)code:
\* ok, and the int as sign and (when it is below 65536) value
strtol_int(tok) ==
    IF ~AllDigits(Magnitude(tok)) THEN [ok |-> FALSE, neg |-> FALSE, val |-> 0]
    ELSE LET m == Magnitude(tok)
             inRange == IF IsNegative(tok) THEN DecLeq(m, DEC_LONG_MIN_MAG)
                        ELSE DecLeq(m, DEC_LONG_MAX)
             bits == IF IsNegative(tok) THEN Neg32(Low32(m)) ELSE Low32(m)
         IN IF ~inRange THEN [ok |-> FALSE, neg |-> FALSE, val |-> 0]
            ELSE [ok |-> TRUE, neg |-> bits.hi >= 32768,
                  val |-> IF bits.hi = 0 THEN bits.lo ELSE 65536]

\* strtoul(tok, &end, 10) with the callers' checks and size <= UINT32_MAX:
\* ok, and the size (-1 for an accepted size beyond the model's integers)
strtoul_u32(tok) ==
    IF ~AllDigits(Magnitude(tok)) THEN [ok |-> FALSE, val |-> 0]
    ELSE LET m == Magnitude(tok)
             zero == StripZeros(m) = <<48>>
         IN IF ~DecLeq(m, DEC_ULONG_MAX) THEN [ok |-> FALSE, val |-> 0]
            ELSE IF IsNegative(tok) /\ ~zero THEN [ok |-> FALSE, val |-> 0]
            ELSE IF ~DecLeq(m, DEC_UINT32_MAX) THEN [ok |-> FALSE, val |-> 0]
            ELSE [ok |-> TRUE,
                  val |-> IF Len(StripZeros(m)) <= 9
                          THEN DigitsValue(StripZeros(m)) ELSE 0 - 1]

\* ------------------------------------------------------------------------
\* State
\* ------------------------------------------------------------------------

VARIABLES
    c2s,        \* bytes written by the client, not yet read by the server
    s2c,        \* bytes written by the server, not yet read by the client
    cOpen,      \* the client still holds its end of the connection
    link,       \* the connection at the server: "none", "pending" (not yet
                \*   accepted), "up", "closed" (closed by the server)
    sPc,        \* server: "listen", "session", "exited", "restarted"
    authed,     \* handle_rmi_client: authed
    attempts,   \* handle_rmi_client: attempts
    sResult,    \* what the last handle_rmi_client call returned ("NONE" before)
    fs,         \* the device's files
    spawned,    \* child processes forked by the server so far
    keys,       \* key codes written to the input device so far
    conns,      \* connections accepted so far
    beats,      \* idle HEARTBEAT frames emitted so far
    nBad,       \* frames read on this connection, while unauthenticated, that
                \*   were not a matching AUTH
    umask,      \* the server process's file mode creation mask
    nSent,      \* frames written by the arbitrary client of SpecServer
    status,     \* RmiClient::status_
    stop_,      \* RmiClient::stop_
    outbox,     \* RmiClient::outbox_
    last_error, \* RmiClient::last_error_
    file_lists, \* RmiClient::file_lists_
    downloads,  \* RmiClient::downloads_
    screencap,  \* last_screencap_png_, last_screencap_path_, last_screencap_version_
    version_info, \* last_version_ and has_version_
    wPc,        \* the worker thread: "none", "start", "auth", "loop", the reply
                \*   it waits for, "exited"
    cur,        \* workerLoop: message
    nConn,      \* connect() calls that started a worker so far
    uiPc,       \* the calling thread: "idle", or "joining" inside disconnect()
    nOps,       \* operations requested so far, the first connect() apart
    nQueued,    \* queueMessage calls so far
    lastSeq,    \* the number of the queueMessage call whose message the
                \*   worker took last
    cBeats,     \* heartbeats sent by the worker so far
    gSrv,       \* non-heartbeat frames the server wrote since the worker
                \*   sent its latest command
    gCli,       \* non-heartbeat frames the worker read for that command
    gFail,      \* a receive failed on this connection
    gPartial,   \* the server cut a frame short on this connection
    gOut,       \* how the worker's latest command ended ("none": not yet)
    gUp,        \* the upload the server has just acknowledged: remote path
                \*   and bytes (NoUpload once another command has been sent)
    gStop,      \* the status when disconnect() raised the stop flag ("none"
                \*   outside disconnect())
    nRefused,   \* calls of connect() that returned false
    nPeer,      \* frames written by the arbitrary peer of SpecClient
    written,    \* the payloads of the frames on s2c, oldest first, as the
                \*   sender of SpecFraming wrote them
    decoded,    \* what the latest receiveFrame call of SpecFraming returned
    be32        \* a u32, the bytes rmi_write_be32 made of it, and the value
                \*   rmi_read_be32 read from them

srvVars == <<sPc, authed, attempts, sResult, fs, spawned, keys, conns, beats,
             nBad, umask>>
netVars == <<c2s, s2c, cOpen, link>>
resVars == <<file_lists, downloads, screencap, version_info>>
cliVars == <<status, stop_, outbox, last_error, file_lists, downloads, screencap,
             version_info, wPc, cur, nConn, uiPc, nOps, nQueued, lastSeq, cBeats>>
ghostVars == <<gSrv, gCli, gFail, gPartial, gOut, gUp, gStop, nRefused>>
codecVars == <<written, decoded, be32>>
vars == <<c2s, s2c, cOpen, link, sPc, authed, attempts, sResult, fs, spawned,
          keys, conns, beats, nBad, umask, nSent, status, stop_, outbox,
          last_error, file_lists, downloads, screencap, version_info, wPc, cur,
          nConn, uiPc, nOps, nQueued, lastSeq, cBeats, gSrv, gCli, gFail,
          gPartial, gOut, gUp, gStop, nRefused, nPeer, written, decoded, be32>>

\* ------------------------------------------------------------------------
\* Framing (send_frame, send_text; RmiClient::sendFrame)
\* ------------------------------------------------------------------------

\* one emitted frame: the length its header declares and the payload bytes
\* that were actually written after it
Emitted(len, data) == [len |-> len, data |-> data]

\* send_frame / send_text: header, then the whole payload
send_frame(buf) == Emitted(Len(buf), buf)

\* the bytes of a frame on the wire
Wire(f) == rmi_write_be32(f.len) \o f.data

RECURSIVE WireAll(_)
WireAll(fr) == IF fr = <<>> THEN <<>> ELSE Wire(Head(fr)) \o WireAll(Tail(fr))

Frame(payload) == Wire(send_frame(payload))

\* ------------------------------------------------------------------------
\* The device filesystem
\* ------------------------------------------------------------------------

\* "/", "/d", "/d/a", "/d/s", "/x/y", "/data/local/tmp/rmi" and its ".new"
PathRoot == <<47>>
PathD == <<47, 100>>
PathA == <<47, 100, 47, 97>>
PathS == <<47, 100, 47, 115>>
PathX == <<47, 120, 47, 121>>
SELF_BINARY == <<47, 100, 97, 116, 97, 47, 108, 111, 99, 97, 108, 47, 116, 109, 112, 47, 114, 109, 105>>
NewPath(path) == path \o <<46, 110, 101, 119>>

\* the paths that can hold a file or directory: every other path lies in a
\* directory that does not exist
FsPaths == {PathD, PathA, PathS, SELF_BINARY, NewPath(SELF_BINARY)}

NoEntry == [kind |-> "none", mode |-> 0, data |-> <<>>]
FileEntry(mode, data) == [kind |-> "file", mode |-> mode, data |-> data]
DirEntry == [kind |-> "dir", mode |-> 493, data |-> <<>>]

Exists(f, path) == path \in FsPaths /\ f[path].kind # "none"

\* the entries of directory dir, as (name, path) pairs
SlashAt(path) == {i \in 1..Len(path) : path[i] = 47}
IsChild(path, dir) ==
    /\ Len(path) > Len(dir) + 1
    /\ SubSeq(path, 1, Len(dir)) = dir
    /\ path[Len(dir) + 1] = 47
    /\ \A i \in SlashAt(path) : i <= Len(dir) + 1
Children(f, dir) == {q \in FsPaths : IsChild(q, dir) /\ f[q].kind # "none"}
BaseName(path, dir) == SubSeq(path, Len(dir) + 2, Len(path))

\* a server that never recognises its own binary's path
is_self_binary_path_Never(path) == FALSE

\* get_self_path / is_self_binary_path: the server runs /data/local/tmp/rmi
is_self_binary_path(path) == path = SELF_BINARY

\* what the environment does to one handler call: at most one failing step
\* ("none": every system call succeeds), the chunk at which a transfer
\* fails, the order of readdir, the bytes the screencap child prints
Faults == {"none", "open", "write", "chmod", "rename", "stat", "read",
           "pipe", "fork", "exec", "device", "child"}

\* a PNG file as far as the client looks at it: the 8 signature bytes
\* followed by image bytes (1: decodable, 0: not decodable)
PngSignature == <<137, 80, 78, 71, 13, 10, 26, 10>>
PngGood == PngSignature \o <<1>>
PngBad == PngSignature \o <<0>>

Env(fault, at) == [fault |-> fault, at |-> at]
Envs == {Env(f, 0) : f \in Faults} \cup {Env("none", 1)}

\* mode & ~mask on the 9 permission bits
RECURSIVE AndNot(_, _, _)
AndNot(mode, mask, bits) ==
    IF bits = 0 THEN 0
    ELSE (2 * AndNot(mode \div 2, mask \div 2, bits - 1))
         + (IF mode % 2 = 1 /\ mask % 2 = 0 THEN 1 ELSE 0)

\* open(path, O_CREAT | O_TRUNC | O_WRONLY, 0644): an existing file keeps its
\* mode, a new one gets 0644 less the umask; either way it is now empty
OpenTrunc(f, path, um) ==
    [f EXCEPT ![path] = FileEntry(IF @.kind = "file" THEN @.mode
                                  ELSE AndNot(420, um, 9), <<>>)]

ChunksOf(len) == (len + (CHUNK - 1)) \div CHUNK

\* an upload that renames the staged file without chmod
recv_frame_to_file_NoChmod(stream, path, expected_len, f, um, env, closed) ==
    IF Len(stream) < RMI_FRAME_HEADER_SIZE
    THEN [blk |-> ~closed, rc |-> 0 - 1, used |-> Len(stream), fs |-> f]
    ELSE
    LET len == rmi_read_be32(Take(stream, 4))
        body == Drop(stream, 4)
        avail == Min(Len(body), len)
        short == Len(body) < len
        use_tmp == is_self_binary_path(path)
        write_path == IF use_tmp THEN NewPath(path) ELSE path
        canOpen == /\ env.fault # "open"
                   /\ write_path \in FsPaths
                   /\ f[write_path].kind # "dir"
        \* drain_bytes(fd, len); return -1
        drained == [blk |-> short /\ ~closed, rc |-> 0 - 1,
                    used |-> 4 + avail, fs |-> f]
        opened == OpenTrunc(f, write_path, um)
        Written(n) == [opened EXCEPT ![write_path].data = Take(body, n)]
        k == Min(env.at, ChunksOf(len) - 1)
    IN IF len # expected_len THEN drained
       ELSE IF ~canOpen THEN drained
       ELSE IF short
       THEN \* read_exact fails in the copy loop: the peer closed mid-payload
            [blk |-> ~closed, rc |-> 0 - 1, used |-> 4 + avail,
             fs |-> Written((avail \div CHUNK) * CHUNK)]
       ELSE IF env.fault = "write" /\ len > 0
       THEN \* writeall fails on chunk k: returns without draining the rest
            [blk |-> FALSE, rc |-> 0 - 1,
             used |-> 4 + Min((k + 1) * CHUNK, len), fs |-> Written(k * CHUNK)]
       ELSE IF ~use_tmp
       THEN [blk |-> FALSE, rc |-> 0, used |-> 4 + len, fs |-> Written(len)]
       ELSE IF env.fault \in {"chmod", "rename"}
       THEN \* unlink(write_path); return -1
            [blk |-> FALSE, rc |-> 0 - 1, used |-> 4 + len,
             fs |-> [opened EXCEPT ![write_path] = NoEntry]]
       ELSE \* rename(write_path, path)
            [blk |-> FALSE, rc |-> 0, used |-> 4 + len,
             fs |-> [opened EXCEPT ![path] = FileEntry(opened[write_path].mode,
                                                       Take(body, len)),
                                   ![write_path] = NoEntry]]

\* recv_frame_to_file: read the frame that follows an UPLOAD command into
\* path.  blk: the call is still waiting for bytes of an open connection.
recv_frame_to_file(stream, path, expected_len, f, um, env, closed) ==
    IF Len(stream) < RMI_FRAME_HEADER_SIZE
    THEN [blk |-> ~closed, rc |-> 0 - 1, used |-> Len(stream), fs |-> f]
    ELSE
    LET len == rmi_read_be32(Take(stream, 4))
        body == Drop(stream, 4)
        avail == Min(Len(body), len)
        short == Len(body) < len
        use_tmp == is_self_binary_path(path)
        write_path == IF use_tmp THEN NewPath(path) ELSE path
        canOpen == /\ env.fault # "open"
                   /\ write_path \in FsPaths
                   /\ f[write_path].kind # "dir"
        \* drain_bytes(fd, len); return -1
        drained == [blk |-> short /\ ~closed, rc |-> 0 - 1,
                    used |-> 4 + avail, fs |-> f]
        opened == OpenTrunc(f, write_path, um)
        Written(n) == [opened EXCEPT ![write_path].data = Take(body, n)]
        k == Min(env.at, ChunksOf(len) - 1)
    IN IF len # expected_len THEN drained
       ELSE IF ~canOpen THEN drained
       ELSE IF short
       THEN \* read_exact fails in the copy loop: the peer closed mid-payload
            [blk |-> ~closed, rc |-> 0 - 1, used |-> 4 + avail,
             fs |-> Written((avail \div CHUNK) * CHUNK)]
       ELSE IF env.fault = "write" /\ len > 0
       THEN \* writeall fails on chunk k: returns without draining the rest
            [blk |-> FALSE, rc |-> 0 - 1,
             used |-> 4 + Min((k + 1) * CHUNK, len), fs |-> Written(k * CHUNK)]
       ELSE IF ~use_tmp
       THEN [blk |-> FALSE, rc |-> 0, used |-> 4 + len, fs |-> Written(len)]
       ELSE IF env.fault \in {"chmod", "rename"}
       THEN \* unlink(write_path); return -1
            [blk |-> FALSE, rc |-> 0 - 1, used |-> 4 + len,
             fs |-> [opened EXCEPT ![write_path] = NoEntry]]
       ELSE \* chmod(write_path, 0777); rename(write_path, path)
            [blk |-> FALSE, rc |-> 0, used |-> 4 + len,
             fs |-> [opened EXCEPT ![path] = FileEntry(511, Take(body, len)),
                                   ![write_path] = NoEntry]]

\* send_file_payload: the header, then the file in chunks; a failing read
\* ends the frame after the chunks already written
send_file_payload(data, env) ==
    IF env.fault = "read" /\ Len(data) > 0
    THEN [rc |-> 0 - 1,
          emit |-> <<Emitted(Len(data),
                             Take(data, Min(env.at, ChunksOf(Len(data)) - 1) * CHUNK))>>]
    ELSE [rc |-> 0, emit |-> <<Emitted(Len(data), data)>>]

\* handle_download: OK and the file's bytes as one frame, or -1
handle_download(path, f, env, sendOk) ==
    IF path = <<>> THEN [rc |-> 0 - 1, emit |-> <<>>]
    ELSE IF ~Exists(f, path) \/ env.fault = "open" THEN [rc |-> 0 - 1, emit |-> <<>>]
    ELSE IF env.fault = "stat" THEN [rc |-> 0 - 1, emit |-> <<>>]
    ELSE IF f[path].kind # "file" THEN [rc |-> 0 - 1, emit |-> <<>>]
    ELSE IF ~sendOk THEN [rc |-> 0 - 1, emit |-> <<>>]
    ELSE LET sent == send_file_payload(f[path].data, env)
         IN [rc |-> sent.rc, emit |-> <<send_frame(RMI_RESP_OK)>> \o sent.emit]

\* the entries readdir returns, in one of its possible orders
RECURSIVE SetToSeq(_)
SetToSeq(S) ==
    IF S = {} THEN <<>>
    ELSE LET x == CHOOSE y \in S : TRUE IN <<x>> \o SetToSeq(S \ {x})

RECURSIVE Reverse(_)
Reverse(q) == IF q = <<>> THEN <<>> ELSE Reverse(Tail(q)) \o <<Head(q)>>

readdir(f, dir, env) ==
    IF env.at = 0 THEN SetToSeq(Children(f, dir))
    ELSE Reverse(SetToSeq(Children(f, dir)))

\* "D\t<name>\n" or "F\t<name>\t<size>\n"
ListLine(f, path, dir) ==
    IF f[path].kind = "dir"
    THEN <<68, 9>> \o BaseName(path, dir) \o <<10>>
    ELSE <<70, 9>> \o BaseName(path, dir) \o <<9>>
         \o ToDecimal(Len(f[path].data)) \o <<10>>

RECURSIVE ListLines(_, _, _)
ListLines(f, entries, dir) ==
    IF entries = <<>> THEN <<>>
    ELSE ListLine(f, Head(entries), dir) \o ListLines(f, Tail(entries), dir)

\* send_file_list: the listing of one directory level as one frame, or -1
send_file_list(path, f, env) ==
    IF path = <<>> THEN [rc |-> 0 - 1, emit |-> <<>>]
    ELSE IF ~Exists(f, path) \/ f[path].kind # "dir" \/ env.fault = "open"
    THEN [rc |-> 0 - 1, emit |-> <<>>]
    ELSE [rc |-> 0,
          emit |-> <<send_frame(ListLines(f, readdir(f, path, env), path))>>]

\* remove_tree: a file, or a directory with everything below it
RECURSIVE remove_tree(_, _, _)
remove_tree(path, f, env) ==
    IF path = <<>> \/ path = PathRoot THEN [rc |-> 0 - 1, fs |-> f]
    ELSE IF ~Exists(f, path) \/ env.fault = "stat" THEN [rc |-> 0 - 1, fs |-> f]
    ELSE IF f[path].kind = "dir"
    THEN IF env.fault = "open" THEN [rc |-> 0 - 1, fs |-> f]
         ELSE IF Children(f, path) = {}
         THEN [rc |-> 0, fs |-> [f EXCEPT ![path] = NoEntry]]
         ELSE LET child == Head(readdir(f, path, env))
                  sub == remove_tree(child, f, env)
              IN IF sub.rc # 0 THEN sub ELSE remove_tree(path, sub.fs, env)
    ELSE [rc |-> 0, fs |-> [f EXCEPT ![path] = NoEntry]]

\* a restart check that accepts any regular file
check_restart_permissions_AnyMode(f, env) ==
    IF ~Exists(f, SELF_BINARY) \/ env.fault = "stat" THEN 0 - 1
    ELSE IF f[SELF_BINARY].kind # "file" THEN 0 - 1
    ELSE 0

\* check_restart_permissions: /data/local/tmp/rmi is a regular file, mode 0777
check_restart_permissions(f, env) ==
    IF ~Exists(f, SELF_BINARY) \/ env.fault = "stat" THEN 0 - 1
    ELSE IF f[SELF_BINARY].kind # "file" THEN 0 - 1
    ELSE IF f[SELF_BINARY].mode # 511 THEN 0 - 1
    ELSE 0

\* a screenshot announced by an OK frame, like a download
send_screencap_WithOk(env) ==
    IF env.fault \in {"pipe", "fork", "read"}
    THEN [rc |-> 0 - 1, emit |-> <<>>, forked |-> 0]
    ELSE [rc |-> 0, emit |-> <<send_frame(RMI_RESP_OK), send_frame(PngGood)>>,
          forked |-> 1]

\* send_screencap: fork screencap -p, send what it printed as one frame
send_screencap(env) ==
    IF env.fault \in {"pipe", "fork"}
    THEN [rc |-> 0 - 1, emit |-> <<>>, forked |-> 0]
    ELSE IF env.fault = "read"
    THEN [rc |-> 0 - 1, emit |-> <<>>, forked |-> 1]
    ELSE LET printed == IF env.fault = "exec" THEN <<>>
                        ELSE IF env.fault = "child" THEN Take(PngGood, 4)
                        ELSE IF env.at = 0 THEN PngGood ELSE PngBad
         IN [rc |-> 0, emit |-> <<send_frame(printed)>>, forked |-> 1]

\* send_keyevent: down/up pair written to /dev/input/event2
send_keyevent(code, env) ==
    IF code.neg \/ code.val > KEY_MAX THEN [rc |-> 0 - 1, keys |-> <<>>]
    ELSE IF env.fault \in {"device", "write"} THEN [rc |-> 0 - 1, keys |-> <<>>]
    ELSE [rc |-> 0, keys |-> <<code.val>>]

\* send_keyevent_input: fork a child that runs `input keyevent <code>`
send_keyevent_input(code, env) ==
    IF code.neg THEN [rc |-> 0 - 1, keys |-> <<>>, forked |-> 0]
    ELSE IF env.fault = "fork" THEN [rc |-> 0 - 1, keys |-> <<>>, forked |-> 0]
    ELSE IF env.fault \in {"exec", "child"}
    THEN [rc |-> 0 - 1, keys |-> <<>>, forked |-> 1]
    ELSE [rc |-> 0, keys |-> <<code.val>>, forked |-> 1]

\* ------------------------------------------------------------------------
\* The server's session loop (handle_rmi_client)
\* ------------------------------------------------------------------------

\* read_command: one command frame into cmd[1024].  n: the return value's
\* sign (1: a command was read; 0 and -1 end the session)
read_command(stream, closed) ==
    IF Len(stream) < RMI_FRAME_HEADER_SIZE
    THEN [blk |-> ~closed, n |-> 0, used |-> Len(stream), buf |-> <<>>, why |-> "eof"]
    ELSE LET len == rmi_read_be32(Take(stream, 4))
             body == Drop(stream, 4)
         IN IF len = 0
            THEN [blk |-> FALSE, n |-> 0, used |-> 4, buf |-> <<>>, why |-> "zero"]
            ELSE IF Len(body) < len
            THEN [blk |-> ~closed, n |-> 0, used |-> Len(stream), buf |-> <<>>,
                  why |-> "eof"]
            ELSE IF len >= CMD_BUF_SIZE
            THEN [blk |-> FALSE, n |-> 0 - 1, used |-> 4 + len, buf |-> <<>>,
                  why |-> "toolong"]
            ELSE [blk |-> FALSE, n |-> 1, used |-> 4 + len,
                  buf |-> Take(body, len), why |-> "cmd"]

\* the variables of one handle_rmi_client call and what its handlers change
Session(a, n, f, sp, k) ==
    [authed |-> a, attempts |-> n, fs |-> f, spawned |-> sp, keys |-> k]

\* the outcome of one iteration of the session loop: bytes read, emitted
\* frames, the return value ("NONE": the loop continues), the new variables
Outcome(blk, used, emit, ret, st, kind) ==
    [blk |-> blk, used |-> used, emit |-> emit, ret |-> ret, st |-> st,
     kind |-> kind]

\* AUTH that compares the user name only
AuthMatches_UserOnly(cmd, user, pass) ==
    LET t == Tokens(cmd)
    IN /\ Len(t) >= 1 /\ t[1] = RMI_CMD_AUTH
       /\ Len(t) >= 2 /\ t[2] = user

\* the AUTH command names the configured user and password
AuthMatches(cmd, user, pass) ==
    LET t == Tokens(cmd)
    IN /\ Len(t) >= 1 /\ t[1] = RMI_CMD_AUTH
       /\ Len(t) >= 3 /\ t[2] = user /\ t[3] = pass

\* the session loop's branch for !authed
HandleUnauthed(cmd, used, st, sendOk) ==
    IF AuthMatches(cmd, RMI_DEFAULT_USER, RMI_DEFAULT_PASS)
    THEN IF ~sendOk
         THEN Outcome(FALSE, used, <<>>, "CONTINUE", st, "auth_ok")
         ELSE Outcome(FALSE, used, <<send_frame(RMI_RESP_OK)>>, "NONE",
                      [st EXCEPT !.authed = TRUE], "auth_ok")
    ELSE IF st.attempts + 1 >= 3
         THEN Outcome(FALSE, used, <<send_frame(ERR_auth_failed)>>, "CONTINUE",
                      [st EXCEPT !.attempts = @ + 1], "auth_bad")
         ELSE Outcome(FALSE, used, <<send_frame(ERR_auth_required)>>, "NONE",
                      [st EXCEPT !.attempts = @ + 1], "auth_bad")

\* the session loop's chain of keyword tests for an authenticated command
HandleCommand(cmd, used, rest, st, um, env, closed, sendOk) ==
    LET t == Tokens(cmd)
        Reply(text, kind) == Outcome(FALSE, used, <<send_frame(text)>>, "NONE", st, kind)
    IN
    IF cmd = RMI_CMD_QUIT
    THEN Outcome(FALSE, used, <<send_frame(RMI_RESP_OK)>>, "SHUTDOWN", st, "quit")
    ELSE IF cmd = RMI_CMD_RESTART
    THEN IF check_restart_permissions(st.fs, env) = 0 - 1
         THEN Reply(ERR_restart, "restart")
         ELSE Outcome(FALSE, used, <<send_frame(RMI_RESP_OK)>>, "RESTART", st, "restart")
    ELSE IF cmd = RMI_CMD_VERSION
    THEN Reply(RMI_RESP_VERSION_PREFIX \o ToDecimal(RMI_VERSION), "version")
    ELSE IF cmd = RMI_CMD_HEARTBEAT
    THEN Reply(RMI_RESP_OK, "heartbeat")
    ELSE IF rmi_payload_starts_with(cmd, RMI_CMD_PRESS_INPUT)
    THEN IF Len(t) >= 2 /\ strtol_int(t[2]).ok
         THEN LET k == send_keyevent_input(strtol_int(t[2]), env)
              IN Outcome(FALSE, used,
                         <<send_frame(IF k.rc = 0 THEN RMI_RESP_OK ELSE ERR_press)>>,
                         "NONE",
                         [st EXCEPT !.keys = @ \o k.keys, !.spawned = @ + k.forked],
                         "press_input")
         ELSE Reply(ERR_press, "press_input")
    ELSE IF rmi_payload_starts_with(cmd, RMI_CMD_UPLOAD)
    THEN IF Len(t) >= 3 /\ strtoul_u32(t[3]).ok
         THEN LET r == recv_frame_to_file(rest, t[2], strtoul_u32(t[3]).val,
                                          st.fs, um, env, closed)
              IN Outcome(r.blk, used + r.used,
                         <<send_frame(IF r.rc = 0 THEN RMI_RESP_OK ELSE ERR_upload)>>,
                         "NONE", [st EXCEPT !.fs = r.fs], "upload")
         ELSE Reply(ERR_upload, "upload")
    ELSE IF rmi_payload_starts_with(cmd, RMI_CMD_LIST)
    THEN IF Len(t) >= 2 /\ send_file_list(t[2], st.fs, env).rc = 0
         THEN Outcome(FALSE, used, send_file_list(t[2], st.fs, env).emit, "NONE",
                      st, "list")
         ELSE Reply(ERR_list, "list")
    ELSE IF rmi_payload_starts_with(cmd, RMI_CMD_DOWNLOAD)
    THEN IF Len(t) >= 2
         THEN LET d == handle_download(t[2], st.fs, env, sendOk)
              IN Outcome(FALSE, used,
                         IF d.rc = 0 THEN d.emit
                         ELSE d.emit \o <<send_frame(ERR_download)>>,
                         "NONE", st, "download")
         ELSE Reply(ERR_download, "download")
    ELSE IF rmi_payload_starts_with(cmd, RMI_CMD_DELETE)
    THEN IF Len(t) >= 2 /\ remove_tree(t[2], st.fs, env).rc = 0
         THEN Outcome(FALSE, used, <<send_frame(RMI_RESP_OK)>>, "NONE",
                      [st EXCEPT !.fs = remove_tree(t[2], st.fs, env).fs], "delete")
         ELSE IF Len(t) >= 2
         THEN Outcome(FALSE, used, <<send_frame(ERR_delete)>>, "NONE",
                      [st EXCEPT !.fs = remove_tree(t[2], st.fs, env).fs], "delete")
         ELSE Reply(ERR_delete, "delete")
    ELSE IF rmi_payload_starts_with(cmd, RMI_CMD_PRESS)
    THEN IF Len(t) >= 2 /\ strtol_int(t[2]).ok
         THEN LET k == send_keyevent(strtol_int(t[2]), env)
              IN Outcome(FALSE, used,
                         <<send_frame(IF k.rc = 0 THEN RMI_RESP_OK ELSE ERR_press)>>,
                         "NONE", [st EXCEPT !.keys = @ \o k.keys], "press")
         ELSE Reply(ERR_press, "press")
    ELSE IF cmd = RMI_CMD_SCREENCAP
    THEN LET c == send_screencap(env)
         IN Outcome(FALSE, used,
                    IF c.rc = 0 - 1 THEN <<send_frame(ERR_screencap)>> ELSE c.emit,
                    "NONE", [st EXCEPT !.spawned = @ + c.forked], "screencap")
    ELSE Reply(ERR_unknown_command, "unknown")

\* one iteration of the session loop once poll reports the socket readable
HandleFrame(stream, st, um, env, closed, sendOk) ==
    LET rd == read_command(stream, closed)
        cmd == CStr(rd.buf)
    IN IF rd.n <= 0
       THEN Outcome(rd.blk, rd.used, <<>>, "CONTINUE", st, rd.why)
       ELSE IF cmd = <<>>
       THEN Outcome(FALSE, rd.used, <<>>, "NONE", st, "nul")
       ELSE IF ~st.authed
       THEN HandleUnauthed(cmd, rd.used, st, sendOk)
       ELSE HandleCommand(cmd, rd.used, Drop(stream, rd.used), st, um, env,
                          closed, sendOk)

\* rmi_server: what the accept loop does with handle_rmi_client's result
AfterSession(ret) ==
    IF ret = "SHUTDOWN" THEN "exited"
    ELSE IF ret = "RESTART" THEN "restarted"
    ELSE "listen"

\* rmi_server: accept() hands the pending connection to handle_rmi_client,
\* which starts with attempts = 0 and authed = false; an accept() that fails
\* with an error other than EINTR leaves the loop, and the process ends
SrvAccept ==
    /\ sPc = "listen"
    /\ link = "pending"
    /\ \/ /\ conns < MaxConns
          /\ sPc' = "session"
          /\ link' = "up"
          /\ authed' = FALSE
          /\ attempts' = 0
          /\ nBad' = 0
          /\ conns' = conns + 1
       \/ /\ sPc' = "exited"
          /\ link' = "closed"
          /\ UNCHANGED <<authed, attempts, nBad, conns>>
    /\ UNCHANGED <<c2s, s2c, cOpen, sResult, fs, spawned, keys, beats, umask, nSent>>
    /\ UNCHANGED <<cliVars, ghostVars, nPeer, codecVars>>

\* one iteration of the session loop with the socket readable: read one
\* command frame and handle it; on return rmi_server closes the connection
SrvStep ==
    /\ sPc = "session"
    /\ \E env \in Envs, sendOk \in (IF cOpen THEN {TRUE} ELSE BOOLEAN) :
         \E r \in {HandleFrame(c2s, Session(authed, attempts, fs, spawned, keys),
                                umask, env, ~cOpen, sendOk)} :
            /\ ~r.blk
            /\ c2s' = Drop(c2s, r.used)
            /\ s2c' = IF sendOk THEN s2c \o WireAll(r.emit) ELSE s2c
            /\ gSrv' = IF sendOk THEN gSrv + Len(r.emit) ELSE gSrv
            /\ gPartial' = (gPartial \/ (sendOk /\ \E i \in 1..Len(r.emit) :
                                            Len(r.emit[i].data) < r.emit[i].len))
            /\ authed' = r.st.authed
            /\ attempts' = r.st.attempts
            /\ fs' = r.st.fs
            /\ spawned' = r.st.spawned
            /\ keys' = r.st.keys
            /\ nBad' = IF ~authed /\ r.kind \in {"zero", "toolong", "nul", "auth_bad"}
                       THEN nBad + 1 ELSE nBad
            /\ IF r.ret = "NONE"
               THEN UNCHANGED <<sPc, link, sResult>>
               ELSE /\ sPc' = AfterSession(r.ret)
                    /\ link' = "closed"
                    /\ sResult' = r.ret
    /\ UNCHANGED <<cOpen, conns, beats, umask, nSent>>
    /\ UNCHANGED <<cliVars, gCli, gFail, gOut, gUp, gStop, nRefused, nPeer, codecVars>>

\* a server that sends its HEARTBEAT whether or not a command is waiting
SrvIdle_Anytime ==
    /\ sPc = "session"
    /\ beats < MaxBeats
    /\ cOpen
    /\ s2c' = s2c \o Frame(RMI_CMD_HEARTBEAT)
    /\ beats' = beats + 1
    /\ UNCHANGED <<c2s, cOpen, link, sPc, authed, attempts, sResult, fs, spawned,
                   keys, conns, nBad, umask, nSent>>
    /\ UNCHANGED <<cliVars, ghostVars, nPeer, codecVars>>

\* poll timed out (RMI_HEARTBEAT_MS with nothing to read): send a HEARTBEAT
\* frame
SrvIdle ==
    /\ sPc = "session"
    /\ beats < MaxBeats
    /\ cOpen
    /\ c2s = <<>>
    /\ s2c' = s2c \o Frame(RMI_CMD_HEARTBEAT)
    /\ beats' = beats + 1
    /\ UNCHANGED <<c2s, cOpen, link, sPc, authed, attempts, sResult, fs, spawned,
                   keys, conns, nBad, umask, nSent>>
    /\ UNCHANGED <<cliVars, ghostVars, nPeer, codecVars>>

\* the peer is gone: poll reports POLLHUP / POLLERR, or the idle HEARTBEAT
\* cannot be sent; handle_rmi_client returns RMI_CONTINUE
SrvHangup ==
    /\ sPc = "session"
    /\ ~cOpen
    /\ sPc' = "listen"
    /\ link' = "closed"
    /\ sResult' = "CONTINUE"
    /\ UNCHANGED <<c2s, s2c, cOpen, authed, attempts, fs, spawned, keys, conns,
                   beats, nBad, umask, nSent>>
    /\ UNCHANGED <<cliVars, ghostVars, nPeer, codecVars>>

\* ------------------------------------------------------------------------
\* An arbitrary peer of the server (SpecServer)
\* ------------------------------------------------------------------------

\* "AUTH l16 l16", "AUTH x y", "AUTH l16", "AUTH\tl16\tl16"
AuthGood == RMI_CMD_AUTH \o <<32>> \o RMI_DEFAULT_USER \o <<32>> \o RMI_DEFAULT_PASS
AuthWrong == RMI_CMD_AUTH \o <<32, 120, 32, 121>>
AuthShort == RMI_CMD_AUTH \o <<32>> \o RMI_DEFAULT_USER
AuthTabs == RMI_CMD_AUTH \o <<9>> \o RMI_DEFAULT_USER \o <<9>> \o RMI_DEFAULT_PASS

\* a frame payload that fills cmd[1024]
TooLong == [i \in 1..CMD_BUF_SIZE |-> 120]

Cmd1(kw, arg) == kw \o <<32>> \o arg
Cmd2(kw, arg1, arg2) == kw \o <<32>> \o arg1 \o <<32>> \o arg2

\* "-5" and "-4294967291" (5 - 2^32)
NegFive == <<45, 53>>
NegWrapped == <<45, 52, 50, 57, 52, 57, 54, 55, 50, 57, 49>>

\* a payload one byte longer than recv_frame_to_file's buffer
TwoChunks == [i \in 1..(CHUNK + 1) |-> 120]

ArbFrames ==
    { AuthGood, AuthWrong, AuthShort, AuthTabs,
      RMI_CMD_QUIT, RMI_CMD_RESTART, RMI_CMD_VERSION, RMI_CMD_HEARTBEAT,
      RMI_CMD_SCREENCAP,
      Cmd2(RMI_CMD_UPLOAD, PathS, <<50>>), <<1, 2>>,
      Cmd1(RMI_CMD_DOWNLOAD, PathA), Cmd1(RMI_CMD_LIST, PathD),
      Cmd1(RMI_CMD_DELETE, PathA), Cmd1(RMI_CMD_PRESS, <<53>>),
      Cmd1(RMI_CMD_PRESS_INPUT, <<53>>), Cmd1(RMI_CMD_OPEN, <<120>>),
      Cmd1(RMI_CMD_LIST \o <<88>>, PathD), Cmd1(RMI_CMD_DELETE \o <<77, 69>>, PathA),
      Cmd1(RMI_CMD_PRESS \o <<88>>, <<53>>),
      Cmd1(RMI_CMD_PRESS, NegFive), Cmd1(RMI_CMD_PRESS, NegWrapped),
      Cmd2(RMI_CMD_UPLOAD, PathS, ToDecimal(CHUNK + 1)), TwoChunks,
      <<>>, <<0, 81>>, TooLong }

\* the session loop has no complete input to work on
SrvWaiting ==
    \/ sPc # "session"
    \/ HandleFrame(c2s, Session(authed, attempts, fs, spawned, keys), umask,
                   Env("none", 0), FALSE, TRUE).blk

ArbConnect ==
    /\ ~cOpen
    /\ link \in {"none", "closed"}
    /\ sPc = "listen"
    /\ conns < MaxConns
    /\ cOpen' = TRUE
    /\ link' = "pending"
    /\ c2s' = <<>>
    /\ s2c' = <<>>
    /\ UNCHANGED <<srvVars, nSent, cliVars, ghostVars, nPeer, codecVars>>

\* the peer reads every reply sent so far and writes one more frame
ArbSend ==
    /\ cOpen
    /\ link = "up"
    /\ nSent < MaxFrames
    /\ SrvWaiting
    /\ \E p \in ArbFrames : c2s' = c2s \o Frame(p)
    /\ s2c' = <<>>
    /\ nSent' = nSent + 1
    /\ UNCHANGED <<cOpen, link, srvVars, cliVars, ghostVars, nPeer, codecVars>>

ArbClose ==
    /\ cOpen
    /\ cOpen' = FALSE
    /\ UNCHANGED <<c2s, s2c, link, srvVars, nSent, cliVars, ghostVars, nPeer, codecVars>>

InitFs ==
    { [q \in FsPaths |->
          IF q = SELF_BINARY THEN FileEntry(m, <<7>>)
          ELSE IF q = PathD THEN DirEntry
          ELSE IF q = PathA THEN FileEntry(420, <<3, 4, 5>>)
          ELSE NoEntry] :
      m \in {511, 493} }


\* ------------------------------------------------------------------------
\* The client: texts, parsers and frame readers (rmi_client.cpp)
\* ------------------------------------------------------------------------

\* an error text: a fixed message followed by the bytes of a payload
Err(text, arg) == [text |-> text, arg |-> arg]
NoError == Err("", <<>>)

\* std::isspace in the "C" locale
IsSpace(b) == b = 32 \/ (b >= 9 /\ b <= 13)
ContainsWhitespace(value) == \E i \in 1..Len(value) : IsSpace(value[i])

RECURSIVE SkipSpace(_)
SkipSpace(s) == IF s # <<>> /\ IsSpace(s[1]) THEN SkipSpace(Tail(s)) ELSE s

\* the longest prefix of s made of decimal digits
RECURSIVE DigitPrefix(_)
DigitPrefix(s) ==
    IF s # <<>> /\ IsDigit(s[1]) THEN <<s[1]>> \o DigitPrefix(Tail(s)) ELSE <<>>

\* the value of a digit text that fits the model's integers, else -1
SmallValue(digits) ==
    IF Len(StripZeros(digits)) <= 9 THEN DigitsValue(StripZeros(digits)) ELSE 0 - 1

\* RmiClient::parseVersionPayload
parseVersionPayload(payload) ==
    LET number_text == Drop(payload, Len(RMI_RESP_VERSION_PREFIX))
        t == SkipSpace(number_text)
        m == Magnitude(t)
        inRange == IF IsNegative(t) THEN DecLeq(m, DEC_LONG_MIN_MAG)
                   ELSE DecLeq(m, DEC_LONG_MAX)
    IN IF rmi_payload_starts_with(payload, RMI_RESP_ERR_PREFIX)
       THEN [ok |-> FALSE, version |-> 0 - 1, error |-> Err("", payload)]
       ELSE IF Len(payload) <= Len(RMI_RESP_VERSION_PREFIX)
               \/ ~rmi_payload_starts_with(payload, RMI_RESP_VERSION_PREFIX)
       THEN [ok |-> FALSE, version |-> 0 - 1,
             error |-> Err("Unexpected VERSION response: ", payload)]
       ELSE IF ~AllDigits(m) \/ ~inRange
               \/ (IsNegative(t) /\ StripZeros(m) # <<48>>)
       THEN [ok |-> FALSE, version |-> 0 - 1,
             error |-> Err("Invalid version number: ", number_text)]
       ELSE [ok |-> TRUE, version |-> SmallValue(m), error |-> NoError]

\* std::getline over the payload: the lines between '\n' bytes
RECURSIVE Lines(_)
Lines(s) ==
    IF s = <<>> THEN <<>>
    ELSE IF \E i \in 1..Len(s) : s[i] = 10
    THEN LET i == CHOOSE j \in 1..Len(s) :
                      s[j] = 10 /\ \A k \in 1..(j - 1) : s[k] # 10
         IN <<SubSeq(s, 1, i - 1)>> \o Lines(Drop(s, i))
    ELSE <<s>>

ListEntry(name, is_dir, size) == [name |-> name, is_dir |-> is_dir, size |-> size]

\* one line of a listing: an entry, nothing (skip), or an error text
ParseListLine(line) ==
    LET rest == Drop(line, 2)
        hasTab == \E i \in 1..Len(rest) : rest[i] = 9
        tab == CHOOSE j \in 1..Len(rest) :
                   rest[j] = 9 /\ \A k \in 1..(j - 1) : rest[k] # 9
        size_text == SkipSpace(Drop(rest, tab))
        digits == DigitPrefix(Magnitude(size_text))
    IN IF line = <<>> THEN [st |-> "skip"]
       ELSE IF Len(line) < 3 \/ line[2] # 9
       THEN [st |-> "error", error |-> "Malformed list entry."]
       ELSE IF line[1] = 68
       THEN [st |-> "entry", entry |-> ListEntry(rest, TRUE, 0)]
       ELSE IF line[1] = 70
       THEN IF ~hasTab THEN [st |-> "error", error |-> "Malformed file entry."]
            ELSE IF digits = <<>> \/ ~DecLeq(digits, DEC_ULONG_MAX)
            THEN [st |-> "error", error |-> "Invalid file size."]
            ELSE IF tab = 1 THEN [st |-> "skip"]
            ELSE [st |-> "entry",
                  entry |-> ListEntry(Take(rest, tab - 1), FALSE,
                                      IF IsNegative(size_text)
                                          /\ StripZeros(digits) # <<48>>
                                      THEN 0 - 1 ELSE SmallValue(digits))]
       ELSE [st |-> "error", error |-> "Unknown list entry type."]

RECURSIVE ParseListLines(_)
ParseListLines(lines) ==
    IF lines = <<>> THEN [ok |-> TRUE, entries |-> <<>>, error |-> NoError]
    ELSE LET r == ParseListLine(Head(lines))
             more == ParseListLines(Tail(lines))
         IN IF r.st = "error"
            THEN [ok |-> FALSE, entries |-> <<>>, error |-> Err(r.error, <<>>)]
            ELSE IF ~more.ok THEN more
            ELSE IF r.st = "skip" THEN more
            ELSE [more EXCEPT !.entries = <<r.entry>> \o @]

\* RmiClient::parseFileListPayload
parseFileListPayload(payload) ==
    IF rmi_payload_starts_with(payload, RMI_RESP_ERR_PREFIX)
    THEN [ok |-> FALSE, entries |-> <<>>, error |-> Err("", payload)]
    ELSE ParseListLines(Lines(payload))

\* the operator's local files: an empty file, a short one, one of 9 bytes
\* and one holding the 9 bytes HEARTBEAT
LocalEmpty == <<101>>
LocalShort == <<115>>
LocalNine == <<110>>
LocalBeat == <<98>>
LocalMissing == <<109>>
LocalData(path) ==
    IF path = LocalEmpty THEN <<>>
    ELSE IF path = LocalShort THEN <<1, 2>>
    ELSE IF path = LocalNine THEN <<1, 2, 3, 4, 5, 6, 7, 8, 9>>
    ELSE RMI_CMD_HEARTBEAT

\* RmiClient::loadUploadFile
loadUploadFile(path) ==
    IF path \notin {LocalEmpty, LocalShort, LocalNine, LocalBeat}
    THEN [ok |-> FALSE, data |-> <<>>, error |-> Err("Upload file not found.", <<>>)]
    ELSE [ok |-> TRUE, data |-> LocalData(path), error |-> NoError]

\* a reader whose limit also refuses a frame of exactly max_bytes
receiveFrame_LimitInclusive(stream, max_bytes) ==
    IF Len(stream) < RMI_FRAME_HEADER_SIZE
    THEN [st |-> "wait", payload |-> <<>>, used |-> Len(stream)]
    ELSE LET length == rmi_read_be32(Take(stream, 4))
         IN IF max_bytes > 0 /\ length >= max_bytes
            THEN [st |-> "limit", payload |-> <<>>, used |-> 4]
            ELSE IF Len(stream) - 4 < length
            THEN [st |-> "wait", payload |-> <<>>, used |-> Len(stream)]
            ELSE [st |-> "ok", payload |-> SubSeq(stream, 5, 4 + length),
                  used |-> 4 + length]

\* RmiClient::receiveFrame on the bytes that have arrived.  st: "ok" (a
\* whole frame), "limit" (the length exceeds max_bytes), "wait" (bytes are
\* still missing)
receiveFrame(stream, max_bytes) ==
    IF Len(stream) < RMI_FRAME_HEADER_SIZE
    THEN [st |-> "wait", payload |-> <<>>, used |-> Len(stream)]
    ELSE LET length == rmi_read_be32(Take(stream, 4))
         IN IF max_bytes > 0 /\ length > max_bytes
            THEN [st |-> "limit", payload |-> <<>>, used |-> 4]
            ELSE IF Len(stream) - 4 < length
            THEN [st |-> "wait", payload |-> <<>>, used |-> Len(stream)]
            ELSE [st |-> "ok", payload |-> SubSeq(stream, 5, 4 + length),
                  used |-> 4 + length]

\* a reader that hands every frame, HEARTBEAT included, to its caller
receiveFrame_NoSkip(stream, max_bytes) == receiveFrame(stream, max_bytes)

\* a reader that skips a HEARTBEAT frame without counting its bytes as read
RECURSIVE receiveFrameSkippingHeartbeats_KeepsBytes(_, _)
receiveFrameSkippingHeartbeats_KeepsBytes(stream, max_bytes) ==
    LET r == receiveFrame(stream, max_bytes)
    IN IF r.st = "ok" /\ rmi_payload_equals(r.payload, RMI_CMD_HEARTBEAT)
       THEN receiveFrameSkippingHeartbeats_KeepsBytes(Drop(stream, r.used), max_bytes)
       ELSE r

\* RmiClient::receiveFrameSkippingHeartbeats
RECURSIVE receiveFrameSkippingHeartbeats(_, _)
receiveFrameSkippingHeartbeats(stream, max_bytes) ==
    LET r == receiveFrame(stream, max_bytes)
    IN IF r.st = "ok" /\ rmi_payload_equals(r.payload, RMI_CMD_HEARTBEAT)
       THEN LET more == receiveFrameSkippingHeartbeats(Drop(stream, r.used), max_bytes)
            IN [more EXCEPT !.used = @ + r.used]
       ELSE r

\* the last setDownloadProgress call of a read
Progress(received, total, in_progress) ==
    [received |-> received, total |-> total, in_progress |-> in_progress]

\* RmiClient::receiveFrameSkippingHeartbeatsWithProgress
RECURSIVE receiveFrameSkippingHeartbeatsWithProgress(_, _)
receiveFrameSkippingHeartbeatsWithProgress(stream, max_bytes) ==
    IF Len(stream) < RMI_FRAME_HEADER_SIZE
    THEN [st |-> "wait", payload |-> <<>>, used |-> Len(stream),
          prog |-> Progress(0, 0, FALSE)]
    ELSE
    LET length == rmi_read_be32(Take(stream, 4))
        have == Len(stream) - 4
        payload == SubSeq(stream, 5, 4 + length)
    IN IF max_bytes > 0 /\ length > max_bytes
       THEN [st |-> "limit", payload |-> <<>>, used |-> 4,
             prog |-> Progress(0, 0, FALSE)]
       ELSE IF length = 0
       THEN [st |-> "ok", payload |-> <<>>, used |-> 4,
             prog |-> Progress(0, 0, FALSE)]
       ELSE IF length = Len(RMI_CMD_HEARTBEAT)
       THEN IF have < length
            THEN [st |-> "wait", payload |-> <<>>, used |-> Len(stream),
                  prog |-> Progress(0, 0, FALSE)]
            ELSE IF rmi_payload_equals(payload, RMI_CMD_HEARTBEAT)
            THEN LET more == receiveFrameSkippingHeartbeatsWithProgress(
                                 Drop(stream, 4 + length), max_bytes)
                 IN [more EXCEPT !.used = @ + 4 + length]
            ELSE [st |-> "ok", payload |-> payload, used |-> 4 + length,
                  prog |-> Progress(length, length, FALSE)]
       ELSE IF have < length
       THEN [st |-> "wait", payload |-> <<>>, used |-> Len(stream),
             prog |-> Progress(have, length, FALSE)]
       ELSE [st |-> "ok", payload |-> payload, used |-> 4 + length,
             prog |-> Progress(length, length, FALSE)]

\* ------------------------------------------------------------------------
\* The client's operations (the thread that calls RmiClient)
\* ------------------------------------------------------------------------

\* std::unordered_map: operator[] makes the entry when it is missing
MapPut(m, k, v) == [x \in (DOMAIN m) \cup {k} |-> IF x = k THEN v ELSE m[x]]
MapGet(m, k, fresh) == IF k \in DOMAIN m THEN m[k] ELSE fresh

FileListResult(entries, error, version) ==
    [entries |-> entries, error |-> error, version |-> version]
DownloadResult(data, error, version, total, received, in_progress) ==
    [data |-> data, error |-> error, version |-> version, total |-> total,
     received |-> received, in_progress |-> in_progress]
NewFileList == FileListResult(<<>>, NoError, 0)
NewDownload == DownloadResult(<<>>, NoError, 0, 0, 0, FALSE)

\* OutboundMessage; seq numbers the queueMessage calls
OutboundMessage(message, response) ==
    [message |-> message, response |-> response, disconnect_after_ok |-> FALSE,
     is_upload |-> FALSE, restart_after_upload |-> FALSE,
     upload_local_path |-> <<>>, upload_remote_path |-> <<>>,
     list_path |-> <<>>, download_path |-> <<>>, seq |-> 0]
NoMessage == OutboundMessage(<<>>, "None")

\* std::to_string(int)
IntToString(n) == IF n < 0 THEN <<45>> \o ToDecimal(0 - n) ELSE ToDecimal(n)

ClientConfig(username, password) == [username |-> username, password |-> password]
Configs == {ClientConfig(RMI_DEFAULT_USER, RMI_DEFAULT_PASS),
            ClientConfig(RMI_DEFAULT_USER, <<120>>)}

\* outbox_.push at the front instead of the back
queueMessage_Front(box, message) == <<message>> \o box

\* RmiClient::queueMessage
queueMessage(box, message) == Append(box, message)

\* a connect() that clears last_error before it looks at the status
Connect_ClearsFirst ==
    /\ uiPc = "idle"
    /\ IF status \in {"Connecting", "Connected"}
       THEN /\ nOps < MaxOps
            /\ nOps' = nOps + 1
            /\ nRefused' = nRefused + 1
            /\ last_error' = NoError
            /\ UNCHANGED <<status, stop_, wPc, nConn>>
       ELSE /\ wPc \in {"none", "exited"}
            /\ nConn < MaxConns
            /\ nConn > 0 => nOps < MaxOps
            /\ last_error' = NoError
            /\ stop_' = FALSE
            /\ status' = "Connecting"
            /\ wPc' = "start"
            /\ nConn' = nConn + 1
            /\ nOps' = IF nConn > 0 THEN nOps + 1 ELSE nOps
            /\ UNCHANGED nRefused
    /\ UNCHANGED <<netVars, srvVars, nSent, outbox, resVars, cur, uiPc, nQueued,
                   lastSeq, cBeats, gSrv, gCli, gFail, gPartial, gOut, gUp,
                   gStop, nPeer, codecVars>>

\* RmiClient::connect: false while Connecting or Connected; otherwise
\* joinWorker (the call waits for a worker that is still returning), then a
\* new worker
Connect ==
    /\ uiPc = "idle"
    /\ IF status \in {"Connecting", "Connected"}
       THEN /\ nOps < MaxOps
            /\ nOps' = nOps + 1
            /\ nRefused' = nRefused + 1
            /\ UNCHANGED <<status, stop_, wPc, last_error, nConn>>
       ELSE /\ wPc \in {"none", "exited"}
            /\ nConn < MaxConns
            /\ nConn > 0 => nOps < MaxOps
            /\ last_error' = NoError
            /\ stop_' = FALSE
            /\ status' = "Connecting"
            /\ wPc' = "start"
            /\ nConn' = nConn + 1
            /\ nOps' = IF nConn > 0 THEN nOps + 1 ELSE nOps
            /\ UNCHANGED nRefused
    /\ UNCHANGED <<netVars, srvVars, nSent, outbox, resVars, cur, uiPc, nQueued,
                   lastSeq, cBeats, gSrv, gCli, gFail, gPartial, gOut, gUp,
                   gStop, nPeer, codecVars>>

\* RmiClient::disconnect, up to joinWorker
Disconnect ==
    /\ uiPc = "idle"
    /\ wPc \notin {"none", "exited"}
    /\ nOps < MaxOps
    /\ stop_' = TRUE
    /\ uiPc' = "joining"
    /\ nOps' = nOps + 1
    /\ gStop' = status
    /\ UNCHANGED <<netVars, srvVars, nSent, status, outbox, last_error, resVars,
                   wPc, cur, nConn, nQueued, lastSeq, cBeats, gSrv, gCli, gFail,
                   gPartial, gOut, gUp, nRefused, nPeer, codecVars>>

\* a disconnect() that reports Disconnected whatever the worker left
DisconnectJoined_AlwaysDisconnected ==
    /\ uiPc = "joining"
    /\ wPc \in {"none", "exited"}
    /\ uiPc' = "idle"
    /\ wPc' = "none"
    /\ status' = "Disconnected"
    /\ gStop' = "none"
    /\ UNCHANGED <<netVars, srvVars, nSent, stop_, outbox, last_error, resVars,
                   cur, nConn, nOps, nQueued, lastSeq, cBeats, gSrv, gCli, gFail,
                   gPartial, gOut, gUp, nRefused, nPeer, codecVars>>

\* RmiClient::disconnect, once the worker has been joined
DisconnectJoined ==
    /\ uiPc = "joining"
    /\ wPc \in {"none", "exited"}
    /\ uiPc' = "idle"
    /\ wPc' = "none"
    /\ status' = IF status # "Error" THEN "Disconnected" ELSE status
    /\ gStop' = "none"
    /\ UNCHANGED <<netVars, srvVars, nSent, stop_, outbox, last_error, resVars,
                   cur, nConn, nOps, nQueued, lastSeq, cBeats, gSrv, gCli, gFail,
                   gPartial, gOut, gUp, nRefused, nPeer, codecVars>>

\* the body shared by the send* and request* operations that queue a message
Enqueue(message) ==
    /\ outbox' = queueMessage(outbox, [message EXCEPT !.seq = nQueued + 1])
    /\ nQueued' = nQueued + 1

CanRequest == uiPc = "idle" /\ status = "Connected" /\ nOps < MaxOps

QueueOnly ==
    /\ nOps' = nOps + 1
    /\ UNCHANGED <<netVars, srvVars, nSent, status, stop_, last_error, resVars,
                   wPc, cur, nConn, uiPc, lastSeq, cBeats, ghostVars, nPeer, codecVars>>

sendScreencap ==
    /\ CanRequest
    /\ Enqueue(OutboundMessage(RMI_CMD_SCREENCAP, "Screencap"))
    /\ QueueOnly

sendQuit ==
    /\ CanRequest
    /\ Enqueue([OutboundMessage(RMI_CMD_QUIT, "Ok") EXCEPT !.disconnect_after_ok = TRUE])
    /\ QueueOnly

sendRestart ==
    /\ CanRequest
    /\ Enqueue([OutboundMessage(RMI_CMD_RESTART, "Ok") EXCEPT !.disconnect_after_ok = TRUE])
    /\ QueueOnly

Keycodes == {5}

sendPress ==
    /\ CanRequest
    /\ \E keycode \in Keycodes :
         Enqueue(OutboundMessage(Cmd1(RMI_CMD_PRESS, IntToString(keycode)), "Ok"))
    /\ QueueOnly

sendPressInput ==
    /\ CanRequest
    /\ \E keycode \in Keycodes :
         Enqueue(OutboundMessage(Cmd1(RMI_CMD_PRESS_INPUT, IntToString(keycode)), "Ok"))
    /\ QueueOnly

\* "/d s": a path with a space in it
PathSpace == <<47, 100, 32, 115>>

UploadArgs ==
    {<<l, PathS>> : l \in {LocalEmpty, LocalNine, LocalBeat, LocalMissing}}
    \cup {<<LocalNine, PathSpace>>}

sendUpload ==
    /\ CanRequest
    /\ \E a \in UploadArgs :
         Enqueue([NoMessage EXCEPT !.is_upload = TRUE,
                                   !.upload_local_path = a[1],
                                   !.upload_remote_path = a[2]])
    /\ QueueOnly

sendUploadAndRestart ==
    /\ CanRequest
    /\ \E remote_path \in {SELF_BINARY} :
         Enqueue([NoMessage EXCEPT !.is_upload = TRUE,
                                   !.restart_after_upload = TRUE,
                                   !.upload_local_path = LocalShort,
                                   !.upload_remote_path = remote_path])
    /\ QueueOnly

sendVersion ==
    /\ CanRequest
    /\ Enqueue(OutboundMessage(RMI_CMD_VERSION, "Version"))
    /\ QueueOnly

\* a request with a path: the operator's text for an unusable path, or the
\* empty text
PathCheck(path, what) ==
    IF path = <<>> THEN what \o " path is empty."
    ELSE IF ContainsWhitespace(path) THEN what \o " path must not contain whitespace."
    ELSE ""

Refused(text) ==
    /\ last_error' = Err(text, <<>>)
    /\ nOps' = nOps + 1
    /\ UNCHANGED <<netVars, srvVars, nSent, status, stop_, outbox, resVars, wPc,
                   cur, nConn, uiPc, nQueued, lastSeq, cBeats, ghostVars, nPeer, codecVars>>

\* a requestFileList that resets the listing's entry the way requestDownload
\* resets a download's
requestFileList_Reset ==
    /\ CanRequest
    /\ \E path \in {PathD, PathX, <<>>} :
         IF PathCheck(path, "File list") # ""
         THEN Refused(PathCheck(path, "File list"))
         ELSE /\ Enqueue([OutboundMessage(Cmd1(RMI_CMD_LIST, path), "List")
                             EXCEPT !.list_path = path])
              /\ file_lists' = MapPut(file_lists, path, NewFileList)
              /\ nOps' = nOps + 1
              /\ UNCHANGED <<netVars, srvVars, nSent, status, stop_, last_error,
                             downloads, screencap, version_info, wPc, cur,
                             nConn, uiPc, lastSeq, cBeats, ghostVars, nPeer, codecVars>>

requestFileList ==
    /\ CanRequest
    /\ \E path \in {PathD, PathX, <<>>} :
         IF PathCheck(path, "File list") # ""
         THEN Refused(PathCheck(path, "File list"))
         ELSE /\ Enqueue([OutboundMessage(Cmd1(RMI_CMD_LIST, path), "List")
                             EXCEPT !.list_path = path])
              /\ QueueOnly

requestDownload ==
    /\ CanRequest
    /\ \E path \in {PathS, PathA} :
         IF PathCheck(path, "Download") # ""
         THEN Refused(PathCheck(path, "Download"))
         ELSE /\ Enqueue([OutboundMessage(Cmd1(RMI_CMD_DOWNLOAD, path), "Download")
                             EXCEPT !.download_path = path])
              /\ downloads' =
                   MapPut(downloads, path,
                          [MapGet(downloads, path, NewDownload)
                              EXCEPT !.data = <<>>, !.error = NoError, !.total = 0,
                                     !.received = 0, !.in_progress = TRUE])
              /\ nOps' = nOps + 1
              /\ UNCHANGED <<netVars, srvVars, nSent, status, stop_, last_error,
                             file_lists, screencap, version_info, wPc, cur,
                             nConn, uiPc, lastSeq, cBeats, ghostVars, nPeer, codecVars>>

requestDelete ==
    /\ CanRequest
    /\ \E path \in {PathA} :
         IF PathCheck(path, "Delete") # ""
         THEN Refused(PathCheck(path, "Delete"))
         ELSE /\ Enqueue(OutboundMessage(Cmd1(RMI_CMD_DELETE, path), "Ok"))
              /\ QueueOnly

\* RmiClient::getDownloadResult with all three out-parameters: the entry's
\* data is moved to the caller and cleared; an unknown path returns false
getDownloadResult ==
    /\ uiPc = "idle"
    /\ nOps < MaxOps
    /\ \E path \in DOMAIN downloads :
         downloads' = MapPut(downloads, path, [downloads[path] EXCEPT !.data = <<>>])
    /\ nOps' = nOps + 1
    /\ UNCHANGED <<netVars, srvVars, nSent, status, stop_, outbox, last_error,
                   file_lists, screencap, version_info, wPc, cur, nConn, uiPc,
                   nQueued, lastSeq, cBeats, ghostVars, nPeer, codecVars>>

\* the file a saved screencap is written to
CapturePath == <<99, 46, 112, 110, 103>>

\* what the file system lets saveLastScreencap do
SaveOutcomes ==
    {"Failed to create captures directory: ",
     "Failed to open screencap file for writing.",
     "Failed to write screencap file.", ""}

\* RmiClient::saveLastScreencap
saveLastScreencap ==
    /\ uiPc = "idle"
    /\ nOps < MaxOps
    /\ IF screencap.png = <<>>
       THEN /\ last_error' = Err("No screencap data to save.", <<>>)
            /\ UNCHANGED screencap
       ELSE \E text \in SaveOutcomes :
               /\ last_error' = Err(text, <<>>)
               /\ screencap' = IF text = "" THEN [screencap EXCEPT !.path = CapturePath]
                                ELSE screencap
    /\ nOps' = nOps + 1
    /\ UNCHANGED <<netVars, srvVars, nSent, status, stop_, outbox, file_lists,
                   downloads, version_info, wPc, cur, nConn, uiPc, nQueued,
                   lastSeq, cBeats, ghostVars, nPeer, codecVars>>

\* ------------------------------------------------------------------------
\* The client's worker thread (RmiClient::workerLoop)
\* ------------------------------------------------------------------------

\* what one receive call returns: a frame, or an error text
Received(ok, payload, used, error, prog) ==
    [ok |-> ok, payload |-> payload, used |-> used, error |-> error, prog |-> prog]
NoProgress == [received |-> 0 - 1, total |-> 0, in_progress |-> FALSE]

\* the ways a receive call can end, from what it finds in the bytes that
\* arrive before its deadline (r).  A missing byte ends it by timeout, or by
\* the close or failure of a connection the peer has closed; stop_ ends it
\* at once.
RecvOutcomes(r, stopped, peerClosed) ==
    IF stopped
    THEN {Received(FALSE, <<>>, 0, Err("Operation cancelled.", <<>>), NoProgress)}
    ELSE IF r.st = "ok"
    THEN {Received(TRUE, r.payload, r.used, NoError, r.prog)}
    ELSE IF r.st = "limit"
    THEN {Received(FALSE, <<>>, r.used, Err("Frame size exceeds limit.", <<>>), r.prog)}
    ELSE IF peerClosed
    THEN {Received(FALSE, <<>>, r.used, Err(e, <<>>), r.prog) :
             e \in {"Connection closed by server.", "recv failed"}}
    ELSE {Received(FALSE, <<>>, r.used,
                   Err("Timed out waiting for server response.", <<>>), r.prog)}

\* the fields of RmiClient the worker writes
Client(st, stp, err, fl, dl, sc, vi) ==
    [status |-> st, stop_ |-> stp, last_error |-> err, file_lists |-> fl,
     downloads |-> dl, screencap |-> sc, version_info |-> vi]

\* what a step of the worker leaves: the client's fields, where the worker
\* goes on, the bytes it sends, whether it closes the socket, and how the
\* command ended ("none": it has not ended)
Done(cl, pc, send, close, out) ==
    [cl |-> cl, wPc |-> pc, send |-> send, close |-> close, out |-> out]

\* a setError that also moves the client to Error
setError_AndStatus(cl, error) ==
    [cl EXCEPT !.last_error = error, !.status = "Error"]

\* RmiClient::setError
setError(cl, error) == [cl EXCEPT !.last_error = error]

\* setError(error); setStatus(ClientStatus::Error); return;
\* a failure after which the worker goes on with its loop
Fatal_Continues(cl, error, out) ==
    Done([cl EXCEPT !.last_error = error], "loop", <<>>, FALSE, out)

Fatal(cl, error, out) ==
    Done([cl EXCEPT !.last_error = error, !.status = "Error"], "exited", <<>>,
         TRUE, out)

\* a worker that reports Disconnected and goes on with its loop
Leave_KeepsOn(cl, out) ==
    Done([cl EXCEPT !.status = "Disconnected"], "loop", <<>>, FALSE, out)

\* setStatus(ClientStatus::Disconnected); stop_ = true; break;
Leave(cl, out) ==
    Done([cl EXCEPT !.status = "Disconnected", !.stop_ = TRUE], "exited", <<>>,
         TRUE, out)

\* a comparison that takes every reply but ERR ... for OK
IsOk_NotErr(payload) == ~rmi_payload_starts_with(payload, RMI_RESP_ERR_PREFIX)

IsOk(payload) == rmi_payload_equals(payload, RMI_RESP_OK)
IsErr(payload) == rmi_payload_starts_with(payload, RMI_RESP_ERR_PREFIX)

\* the error text of a reply that is not OK
ReplyError(payload, unexpected) ==
    IF IsErr(payload) THEN Err("", payload) ELSE Err(unexpected, payload)

\* RmiClient::setDownloadProgress
setDownloadProgress(dl, path, prog) ==
    IF path = <<>> \/ prog = NoProgress THEN dl
    ELSE MapPut(dl, path, [MapGet(dl, path, NewDownload)
                              EXCEPT !.received = prog.received,
                                     !.total = prog.total,
                                     !.in_progress = prog.in_progress])

\* a download's result entry filled without ++result.version
DownloadStored_NoBump(dl, path, data, error) ==
    MapPut(dl, path,
           [MapGet(dl, path, NewDownload)
               EXCEPT !.data = data, !.error = error, !.total = Len(data),
                      !.received = Len(data), !.in_progress = FALSE])

\* the three ways workerLoop fills a download's result entry
DownloadStored(dl, path, data, error) ==
    MapPut(dl, path,
           [MapGet(dl, path, NewDownload)
               EXCEPT !.data = data, !.error = error, !.total = Len(data),
                      !.received = Len(data), !.in_progress = FALSE,
                      !.version = @ + 1])

\* a listing's result entry filled without ++result.version
ListStored_NoBump(fl, path, parsed) ==
    MapPut(fl, path,
           [MapGet(fl, path, NewFileList)
               EXCEPT !.entries = parsed.entries,
                      !.error = IF parsed.ok THEN NoError ELSE parsed.error])

\* a worker that keeps the old entries when the listing does not parse
ListStored_KeepsEntries(fl, path, parsed) ==
    MapPut(fl, path,
           [MapGet(fl, path, NewFileList)
               EXCEPT !.entries = IF parsed.ok THEN parsed.entries ELSE @,
                      !.error = IF parsed.ok THEN NoError
                                ELSE IF parsed.error = NoError
                                THEN Err("Failed to parse file list.", <<>>)
                                ELSE parsed.error,
                      !.version = @ + 1])

\* the two ways workerLoop fills a listing's result entry
ListStored(fl, path, parsed) ==
    MapPut(fl, path,
           [MapGet(fl, path, NewFileList)
               EXCEPT !.entries = parsed.entries,
                      !.error = IF parsed.ok THEN NoError
                                ELSE IF parsed.error = NoError
                                THEN Err("Failed to parse file list.", <<>>)
                                ELSE parsed.error,
                      !.version = @ + 1])

\* RmiClient::receiveScreencap after its frame has been read
receiveScreencap(cl, data) ==
    IF IsErr(data) THEN Done(setError(cl, Err("", data)), "loop", <<>>, FALSE, "ScreencapErr")
    ELSE IF Len(data) < Len(PngSignature) \/ Take(data, 8) # PngSignature
    THEN Done(setError(cl, Err("Unexpected screencap payload (not a PNG).", <<>>)),
              "loop", <<>>, FALSE, "ScreencapErr")
    ELSE IF data # PngGood
    THEN Done(setError(cl, Err("Failed to parse PNG header.", <<>>)),
              "loop", <<>>, FALSE, "ScreencapErr")
    ELSE Done([cl EXCEPT !.screencap = [png |-> data, path |-> <<>>,
                                      version |-> @.version + 1]],
              "loop", <<>>, FALSE, "ScreencapOk")

\* the Version branch when its receive fails: setError(error); continue;
VersionFailed(cl, error) == Done(setError(cl, error), "loop", <<>>, FALSE, "fail")

\* workerLoop from the return of the receive call it is waiting in (stage)
\* to its next receive call or to the top of the loop
ReplyStep(stage, message, o, cl, sendOk) ==
    IF stage = "auth"
    THEN IF ~o.ok THEN Fatal(cl, o.error, "fail")
         ELSE IF IsOk(o.payload)
         THEN Done([cl EXCEPT !.status = "Connected"], "loop", <<>>, FALSE, "Auth")
         ELSE Fatal(cl, ReplyError(o.payload, "Unexpected auth response: "), "AuthErr")
    ELSE IF stage = "Screencap"
    THEN IF ~o.ok THEN Fatal(cl, o.error, "fail")
         ELSE receiveScreencap(cl, o.payload)
    ELSE IF stage = "Ok"
    THEN IF ~o.ok THEN Fatal(cl, o.error, "fail")
         ELSE IF IsOk(o.payload)
         THEN IF message.disconnect_after_ok THEN Leave(cl, "OkLast")
              ELSE Done(cl, "loop", <<>>, FALSE, "Ok")
         ELSE Done(setError(cl, ReplyError(o.payload, "Unexpected response: ")),
                   "loop", <<>>, FALSE, "OkErr")
    ELSE IF stage = "Version"
    THEN IF ~o.ok THEN VersionFailed(cl, o.error)
         ELSE IF ~parseVersionPayload(o.payload).ok
         THEN Done(setError(cl, parseVersionPayload(o.payload).error), "loop", <<>>,
                   FALSE, "VersionErr")
         ELSE Done([cl EXCEPT !.version_info =
                                 [last_version |-> parseVersionPayload(o.payload).version,
                                  has_version |-> TRUE]],
                   "loop", <<>>, FALSE, "Version")
    ELSE IF stage = "List"
    THEN IF ~o.ok THEN Fatal(cl, o.error, "fail")
         ELSE Done([cl EXCEPT !.file_lists =
                                 ListStored(@, message.list_path,
                                            parseFileListPayload(o.payload))],
                   "loop", <<>>, FALSE,
                   IF parseFileListPayload(o.payload).ok THEN "List" ELSE "ListErr")
    ELSE IF stage = "Download"
    THEN IF ~o.ok THEN Fatal(cl, o.error, "fail")
         ELSE IF IsOk(o.payload) THEN Done(cl, "DownloadData", <<>>, FALSE, "none")
         ELSE Done([cl EXCEPT !.downloads =
                                 DownloadStored(@, message.download_path, <<>>,
                                                ReplyError(o.payload,
                                                           "Unexpected response: "))],
                   "loop", <<>>, FALSE, "DownloadErr")
    ELSE IF stage = "DownloadData"
    THEN IF ~o.ok
         THEN Fatal([cl EXCEPT !.downloads =
                                  setDownloadProgress(@, message.download_path, o.prog)],
                    o.error, "fail")
         ELSE Done([cl EXCEPT !.downloads =
                                 DownloadStored(@, message.download_path, o.payload,
                                                NoError)],
                   "loop", <<>>, FALSE, "DownloadOk")
    ELSE IF stage = "Upload"
    THEN IF ~o.ok THEN Fatal(cl, o.error, "fail")
         ELSE IF ~IsOk(o.payload)
         THEN Done(setError(cl, ReplyError(o.payload, "Unexpected response: ")),
                   "loop", <<>>, FALSE, "UploadErr")
         ELSE IF ~message.restart_after_upload
         THEN Done(cl, "loop", <<>>, FALSE, "Upload")
         ELSE IF ~sendOk THEN Fatal(cl, Err("send failed", <<>>), "Upload")
         ELSE Done(cl, "Restart", Frame(RMI_CMD_RESTART), FALSE, "sent")
    ELSE IF stage = "Restart"
    THEN IF ~o.ok THEN Fatal(cl, o.error, "fail")
         ELSE IF IsOk(o.payload) THEN Leave(cl, "Restart")
         ELSE Done(setError(cl, ReplyError(o.payload, "Unexpected response: ")),
                   "loop", <<>>, FALSE, "RestartErr")
    ELSE \* "Heartbeat": sendHeartbeat after its frame has been sent
         IF ~o.ok THEN Fatal(cl, o.error, "fail")
         ELSE IF IsOk(o.payload) THEN Done(cl, "loop", <<>>, FALSE, "Heartbeat")
         ELSE Fatal(cl, ReplyError(o.payload, "Unexpected heartbeat response: "),
                    "HeartbeatErr")

Stages == {"auth", "Screencap", "Ok", "Version", "List", "Download",
           "DownloadData", "Upload", "Restart", "Heartbeat"}

\* the max_bytes argument of the receive calls for text replies
ReplyCap == 256

\* every receive call without a frame size limit (kMaxFrameBytes)
MaxBytes_Unlimited(stage) == 0

\* the frame size limit of the receive call of each stage
MaxBytes(stage) ==
    IF stage \in {"Screencap", "List", "DownloadData"} THEN 0 ELSE ReplyCap

\* the receive call of a stage on the bytes that have arrived
Receive(stage, stream) ==
    IF stage = "DownloadData"
    THEN receiveFrameSkippingHeartbeatsWithProgress(stream, MaxBytes(stage))
    ELSE receiveFrameSkippingHeartbeats(stream, MaxBytes(stage)) @@
         [prog |-> NoProgress]

\* a worker that sends the UPLOAD command and keeps the data for later
TakeStep_CommandOnly(message, cl, sendOk) ==
    IF message.message # <<>>
    THEN IF ~sendOk THEN Fatal(cl, Err("send failed", <<>>), "fail")
         ELSE Done(cl, IF message.response = "None" THEN "loop" ELSE message.response,
                   Frame(message.message), FALSE, "sent")
    ELSE IF ~message.is_upload THEN Done(cl, "loop", <<>>, FALSE, "none")
    ELSE IF message.upload_local_path = <<>> \/ message.upload_remote_path = <<>>
    THEN Done(setError(cl, Err("Upload requires local and remote paths.", <<>>)),
              "loop", <<>>, FALSE, "LocalErr")
    ELSE IF ContainsWhitespace(message.upload_remote_path)
    THEN Done(setError(cl, Err("Upload remote path must not contain whitespace.", <<>>)),
              "loop", <<>>, FALSE, "LocalErr")
    ELSE IF ~loadUploadFile(message.upload_local_path).ok
    THEN Done(setError(cl, loadUploadFile(message.upload_local_path).error),
              "loop", <<>>, FALSE, "LocalErr")
    ELSE IF ~sendOk THEN Fatal(cl, Err("send failed", <<>>), "fail")
    ELSE Done(cl, "Upload",
              Frame(Cmd2(RMI_CMD_UPLOAD, message.upload_remote_path,
                         ToDecimal(Len(loadUploadFile(message.upload_local_path).data)))),
              FALSE, "sent")

\* workerLoop from the top of the loop, with a message taken from the
\* outbox, to its receive call or back to the top of the loop
TakeStep(message, cl, sendOk) ==
    IF message.message # <<>>
    THEN IF ~sendOk THEN Fatal(cl, Err("send failed", <<>>), "fail")
         ELSE Done(cl, IF message.response = "None" THEN "loop" ELSE message.response,
                   Frame(message.message), FALSE, "sent")
    ELSE IF ~message.is_upload THEN Done(cl, "loop", <<>>, FALSE, "none")
    ELSE IF message.upload_local_path = <<>> \/ message.upload_remote_path = <<>>
    THEN Done(setError(cl, Err("Upload requires local and remote paths.", <<>>)),
              "loop", <<>>, FALSE, "LocalErr")
    ELSE IF ContainsWhitespace(message.upload_remote_path)
    THEN Done(setError(cl, Err("Upload remote path must not contain whitespace.", <<>>)),
              "loop", <<>>, FALSE, "LocalErr")
    ELSE IF ~loadUploadFile(message.upload_local_path).ok
    THEN Done(setError(cl, loadUploadFile(message.upload_local_path).error),
              "loop", <<>>, FALSE, "LocalErr")
    ELSE IF ~sendOk THEN Fatal(cl, Err("send failed", <<>>), "fail")
    ELSE Done(cl, "Upload",
              Frame(Cmd2(RMI_CMD_UPLOAD, message.upload_remote_path,
                         ToDecimal(Len(loadUploadFile(message.upload_local_path).data))))
              \o Frame(loadUploadFile(message.upload_local_path).data),
              FALSE, "sent")

\* an acknowledged upload
Uploaded(path, data) == [path |-> path, data |-> data]
NoUpload == Uploaded(<<>>, <<>>)

Snapshot ==
    Client(status, stop_, last_error, file_lists, downloads, screencap, version_info)

\* a step of the worker takes effect; message is a local variable of one
\* iteration of the loop
Apply(n, message) ==
    /\ status' = n.cl.status
    /\ stop_' = n.cl.stop_
    /\ last_error' = n.cl.last_error
    /\ file_lists' = n.cl.file_lists
    /\ downloads' = n.cl.downloads
    /\ screencap' = n.cl.screencap
    /\ version_info' = n.cl.version_info
    /\ wPc' = n.wPc
    /\ cur' = IF n.wPc \in Stages THEN message ELSE NoMessage
    /\ c2s' = c2s \o n.send
    /\ cOpen' = IF n.close THEN FALSE ELSE cOpen

\* a send may fail once the peer has closed the connection
SendResults == IF link = "closed" THEN BOOLEAN ELSE {TRUE}

\* workerLoop: connectTo and the AUTH frame
WorkerStart ==
    /\ wPc = "start"
    /\ \/ /\ sPc = "listen"
          /\ link \in {"none", "closed"}
          /\ \E config \in Configs :
               c2s' = Frame(Cmd2(RMI_CMD_AUTH, config.username, config.password))
          /\ s2c' = <<>>
          /\ cOpen' = TRUE
          /\ link' = "pending"
          /\ wPc' = "auth"
          /\ gSrv' = 0
          /\ gCli' = 0
          /\ gFail' = FALSE
          /\ gPartial' = FALSE
          /\ gUp' = NoUpload
          /\ gOut' = "none"
          /\ UNCHANGED <<status, last_error, gStop, nRefused>>
       \/ /\ \E text \in {"connect failed", "send failed"} :
               last_error' = Err(text, <<>>)
          /\ status' = "Error"
          /\ wPc' = "exited"
          /\ UNCHANGED <<netVars, ghostVars>>
    /\ UNCHANGED <<srvVars, nSent, stop_, outbox, resVars, cur, nConn, uiPc, nOps,
                   nQueued, lastSeq, cBeats, nPeer, codecVars>>

\* workerLoop: a receive call returns
WorkerReply ==
    /\ wPc \in Stages
    /\ \E sendOk \in SendResults :
       \E o \in RecvOutcomes(Receive(wPc, s2c), stop_, link = "closed") :
       \E n \in {ReplyStep(wPc, cur, o, Snapshot, sendOk)} :
          /\ Apply(n, cur)
          /\ s2c' = Drop(s2c, o.used)
          /\ gCli' = IF n.out = "sent" THEN 0 ELSE gCli + (IF o.ok THEN 1 ELSE 0)
          /\ gSrv' = IF n.out = "sent" THEN 0 ELSE gSrv
          /\ gOut' = IF n.out = "sent" THEN "none" ELSE n.out
          /\ gFail' = (gFail \/ ~o.ok)
          /\ gUp' = IF wPc = "Upload" /\ o.ok /\ IsOk(o.payload)
                    THEN Uploaded(cur.upload_remote_path,
                                  loadUploadFile(cur.upload_local_path).data)
                    ELSE gUp
    /\ UNCHANGED <<link, srvVars, nSent, outbox, nConn, uiPc, nOps, nQueued,
                   lastSeq, cBeats, gPartial, gStop, nRefused, nPeer, codecVars>>

\* workerLoop: the top of the loop finds a message in the outbox
WorkerTake ==
    /\ wPc = "loop"
    /\ ~stop_
    /\ outbox # <<>>
    /\ \E sendOk \in SendResults :
       \E n \in {TakeStep(Head(outbox), Snapshot, sendOk)} :
          /\ Apply(n, Head(outbox))
          /\ gSrv' = IF n.out = "sent" THEN 0 ELSE gSrv
          /\ gCli' = IF n.out = "sent" THEN 0 ELSE gCli
          /\ gOut' = IF n.out = "sent" THEN "none" ELSE n.out
    /\ outbox' = Tail(outbox)
    /\ lastSeq' = Head(outbox).seq
    /\ gUp' = IF Head(outbox).response = "Download" THEN gUp ELSE NoUpload
    /\ UNCHANGED <<s2c, link, srvVars, nSent, nConn, uiPc, nOps, nQueued, cBeats,
                   gFail, gPartial, gStop, nRefused, nPeer, codecVars>>

\* a worker that, idle, reads the server's HEARTBEAT and answers it with OK
WorkerBeat_Acks ==
    /\ wPc = "loop"
    /\ ~stop_
    /\ outbox = <<>>
    /\ cBeats < MaxBeats
    /\ Len(s2c) >= Len(Frame(RMI_CMD_HEARTBEAT))
    /\ Take(s2c, Len(Frame(RMI_CMD_HEARTBEAT))) = Frame(RMI_CMD_HEARTBEAT)
    /\ s2c' = Drop(s2c, Len(Frame(RMI_CMD_HEARTBEAT)))
    /\ c2s' = c2s \o Frame(RMI_RESP_OK)
    /\ cBeats' = cBeats + 1
    /\ UNCHANGED <<cOpen, link, srvVars, nSent, status, stop_, outbox, last_error,
                   resVars, wPc, cur, nConn, uiPc, nOps, nQueued, lastSeq,
                   ghostVars, nPeer, codecVars>>

\* a worker whose heartbeat clears the recorded error
WorkerBeat_ClearsError ==
    /\ wPc = "loop"
    /\ ~stop_
    /\ outbox = <<>>
    /\ cBeats < MaxBeats
    /\ \E sendOk \in SendResults :
       \E n \in {IF sendOk
                 THEN Done(setError(Snapshot, NoError), "Heartbeat",
                           Frame(RMI_CMD_HEARTBEAT), FALSE, "sent")
                 ELSE Fatal(Snapshot, Err("send failed", <<>>), "fail")} :
          /\ Apply(n, NoMessage)
          /\ gSrv' = IF n.out = "sent" THEN 0 ELSE gSrv
          /\ gCli' = IF n.out = "sent" THEN 0 ELSE gCli
          /\ gOut' = IF n.out = "sent" THEN "none" ELSE n.out
    /\ cBeats' = cBeats + 1
    /\ UNCHANGED <<s2c, link, srvVars, nSent, outbox, nConn, uiPc, nOps,
                   nQueued, lastSeq, gFail, gPartial, gUp, gStop, nRefused,
                   nPeer, codecVars>>

\* workerLoop: no message for kHeartbeatIntervalMs; sendHeartbeat's frame
WorkerBeat ==
    /\ wPc = "loop"
    /\ ~stop_
    /\ outbox = <<>>
    /\ cBeats < MaxBeats
    /\ \E sendOk \in SendResults :
       \E n \in {IF sendOk
                 THEN Done(Snapshot, "Heartbeat", Frame(RMI_CMD_HEARTBEAT), FALSE, "sent")
                 ELSE Fatal(Snapshot, Err("send failed", <<>>), "fail")} :
          /\ Apply(n, NoMessage)
          /\ gSrv' = IF n.out = "sent" THEN 0 ELSE gSrv
          /\ gCli' = IF n.out = "sent" THEN 0 ELSE gCli
          /\ gOut' = IF n.out = "sent" THEN "none" ELSE n.out
    /\ cBeats' = cBeats + 1
    /\ UNCHANGED <<s2c, link, srvVars, nSent, outbox, nConn, uiPc, nOps,
                   nQueued, lastSeq, gFail, gPartial, gUp, gStop, nRefused,
                   nPeer, codecVars>>

\* a loop whose condition and mailbox wait do not look at stop_: the worker
\* keeps waiting
WorkerExit_KeepsWaiting ==
    /\ wPc = "loop"
    /\ stop_
    /\ UNCHANGED vars

\* workerLoop: stop_ ends the loop; connection.close()
WorkerExit ==
    /\ wPc = "loop"
    /\ stop_
    /\ cOpen' = FALSE
    /\ status' = IF status # "Error" THEN "Disconnected" ELSE status
    /\ wPc' = "exited"
    /\ UNCHANGED <<c2s, s2c, link, srvVars, nSent, stop_, outbox, last_error,
                   resVars, cur, nConn, uiPc, nOps, nQueued, lastSeq, cBeats,
                   ghostVars, nPeer, codecVars>>

\* ------------------------------------------------------------------------
\* An arbitrary peer of the client (SpecClient)
\* ------------------------------------------------------------------------

\* "ERR x", "VERSION 42", "XYZ", "F\ta\t3\n", "Q\tz\n"
ErrX == RMI_RESP_ERR_PREFIX \o <<32, 120>>
Version42 == RMI_RESP_VERSION_PREFIX \o <<52, 50>>
Junk == <<88, 89, 90>>
ListingGood == <<70, 9, 97, 9, 51, 10>>
ListingBad == <<81, 9, 122, 10>>

\* a payload over the 256 bytes the client accepts for a text reply
Oversized == [i \in 1..(ReplyCap + 1) |-> 120]

\* the header of a 5-byte frame followed by 2 of its bytes
Torn == rmi_write_be32(5) \o <<1, 2>>

PeerBytes ==
    { Frame(q) : q \in { RMI_RESP_OK, ErrX, Version42, Junk, ListingGood,
                         ListingBad, PngGood, <<>>, Oversized } }
    \cup {Torn}

\* the worker waits in a receive call that the arrived bytes do not complete
WorkerWaits == wPc \in Stages /\ Receive(wPc, s2c).st = "wait"

PeerSend ==
    /\ cOpen
    /\ link \in {"pending", "up"}
    /\ WorkerWaits
    /\ nPeer < MaxPeer
    /\ \E b \in PeerBytes : s2c' = s2c \o b
    /\ c2s' = <<>>
    /\ nPeer' = nPeer + 1
    /\ UNCHANGED codecVars
    /\ UNCHANGED <<cOpen, link, srvVars, nSent, cliVars, ghostVars>>

PeerBeat ==
    /\ cOpen
    /\ link \in {"pending", "up"}
    /\ wPc \in Stages \cup {"loop"}
    /\ beats < MaxBeats
    /\ s2c' = s2c \o Frame(RMI_CMD_HEARTBEAT)
    /\ beats' = beats + 1
    /\ UNCHANGED <<c2s, cOpen, link, sPc, authed, attempts, sResult, fs, spawned,
                   keys, conns, nBad, umask, nSent, cliVars, ghostVars, nPeer, codecVars>>

PeerClose ==
    /\ link \in {"pending", "up"}
    /\ link' = "closed"
    /\ UNCHANGED <<c2s, s2c, cOpen, srvVars, nSent, cliVars, ghostVars, nPeer, codecVars>>

\* ------------------------------------------------------------------------
\* Initial states and specifications
\* ------------------------------------------------------------------------

InitNet ==
    /\ c2s = <<>>
    /\ s2c = <<>>
    /\ cOpen = FALSE
    /\ link = "none"

InitServer ==
    /\ sPc = "listen"
    /\ authed = FALSE
    /\ attempts = 0
    /\ sResult = "NONE"
    /\ spawned = 0
    /\ keys = <<>>
    /\ conns = 0
    /\ beats = 0
    /\ nBad = 0
    /\ nSent = 0

InitClient ==
    /\ status = "Disconnected"
    /\ stop_ = FALSE
    /\ outbox = <<>>
    /\ last_error = NoError
    /\ file_lists = <<>>
    /\ downloads = <<>>
    /\ screencap = [png |-> <<>>, path |-> <<>>, version |-> 0]
    /\ version_info = [last_version |-> 0 - 1, has_version |-> FALSE]
    /\ wPc = "none"
    /\ cur = NoMessage
    /\ nConn = 0
    /\ uiPc = "idle"
    /\ nOps = 0
    /\ nQueued = 0
    /\ lastSeq = 0
    /\ cBeats = 0
    /\ gSrv = 0
    /\ gCli = 0
    /\ gFail = FALSE
    /\ gPartial = FALSE
    /\ gUp = NoUpload
    /\ gStop = "none"
    /\ nRefused = 0
    /\ gOut = "none"
    /\ nPeer = 0

\* no frame written or read yet
NoFrame == [st |-> "none", payload |-> <<>>, max_bytes |-> 0]
NotRead == 0 - 1
InitCodec ==
    /\ written = <<>>
    /\ decoded = NoFrame
    /\ be32 = [value |-> 0, out |-> <<>>, back |-> NotRead]

\* the device and a client that has not connected yet: a server binary of
\* mode 0777 run with umask 022, or one of mode 0755 run with umask 077
Init ==
    /\ InitNet
    /\ InitCodec
    /\ InitServer
    /\ InitClient
    /\ fs \in InitFs
    /\ umask = IF fs[SELF_BINARY].mode = 511 THEN 18 ELSE 63

\* the operations of the thread that calls RmiClient
Caller ==
    \/ Connect
    \/ Disconnect
    \/ DisconnectJoined
    \/ sendScreencap
    \/ sendQuit
    \/ sendRestart
    \/ sendPress
    \/ sendPressInput
    \/ sendUpload
    \/ sendUploadAndRestart
    \/ sendVersion
    \/ requestFileList
    \/ requestDownload
    \/ requestDelete
    \/ getDownloadResult
    \/ saveLastScreencap

Worker ==
    \/ WorkerStart
    \/ WorkerReply
    \/ WorkerTake
    \/ WorkerBeat
    \/ WorkerExit

Server ==
    \/ SrvAccept
    \/ SrvStep
    \/ SrvIdle
    \/ SrvHangup

\* the client and the server together
Next ==
    \/ Caller
    \/ Worker
    \/ Server

Spec == Init /\ [][Next]_vars

\* the server with an arbitrary peer
NextServer ==
    \/ Server
    \/ ArbConnect
    \/ ArbSend
    \/ ArbClose

SpecServer == Init /\ [][NextServer]_vars

\* the client with an arbitrary peer, the device's files left aside
InitAlone ==
    /\ InitNet
    /\ InitCodec
    /\ InitServer
    /\ InitClient
    /\ fs = CHOOSE f \in InitFs : TRUE
    /\ umask = 18

NextClient ==
    \/ Caller
    \/ Worker
    \/ PeerSend
    \/ PeerBeat
    \/ PeerClose

SpecClient == InitAlone /\ [][NextClient]_vars

\* the client with an arbitrary peer and a caller that connects, downloads
\* and disconnects. The worker is a running thread: every wait of
\* workerLoop is bounded (wait_for of 100 ms, receive steps of
\* kReadStepTimeoutMs), so a step of the worker that stays possible is taken;
\* the peer and the caller owe nothing
NextCancel ==
    \/ Connect
    \/ Disconnect
    \/ DisconnectJoined
    \/ requestDownload
    \/ Worker
    \/ PeerSend
    \/ PeerBeat
    \/ PeerClose

SpecCancel == InitAlone /\ [][NextCancel]_vars /\ WF_vars(Worker)

\* ------------------------------------------------------------------------
\* The framing alone (SpecFraming): a sender that writes frames, a receiver
\* that reads them with receiveFrame, and the u32 codec of the header
\* ------------------------------------------------------------------------

\* u32 values around every byte boundary of the header
U32Samples == {0, 1, 255, 256, 65535, 65536, 16777215, 16777216, 2147483647}

\* a payload of exactly ReplyCap bytes
AtCap == [i \in 1..ReplyCap |-> 120]

\* the payloads the sender writes: none, one byte, two texts, and two
\* around the limit some readers apply
FramingPayloads == {<<>>, <<7>>, RMI_RESP_OK, RMI_CMD_HEARTBEAT, AtCap, Oversized}

InitFraming ==
    /\ InitNet
    /\ InitServer
    /\ InitClient
    /\ fs = CHOOSE f \in InitFs : TRUE
    /\ umask = 18
    /\ written = <<>>
    /\ decoded = NoFrame
    /\ be32 \in {[value |-> v, out |-> <<>>, back |-> NotRead] : v \in U32Samples}

\* send_frame: the sender writes one frame
WriteFrame ==
    /\ Len(written) < MaxPeer
    /\ \E p \in FramingPayloads :
         /\ s2c' = s2c \o Frame(p)
         /\ written' = Append(written, p)
    /\ UNCHANGED <<decoded, be32>>
    /\ UNCHANGED <<c2s, cOpen, link, srvVars, nSent, cliVars, ghostVars, nPeer>>

\* one call of receiveFrame, without a limit or with the limit of the text
\* replies; after a refused frame the caller gives the connection up
ReadFrame ==
    /\ \E max_bytes \in {0, ReplyCap} :
         LET r == receiveFrame(s2c, max_bytes)
         IN /\ r.st # "wait"
            /\ decoded' = [st |-> r.st, payload |-> r.payload, max_bytes |-> max_bytes]
            /\ IF r.st = "ok"
               THEN s2c' = Drop(s2c, r.used) /\ written' = Tail(written)
               ELSE s2c' = <<>> /\ written' = <<>>
    /\ UNCHANGED be32
    /\ UNCHANGED <<c2s, cOpen, link, srvVars, nSent, cliVars, ghostVars, nPeer>>

\* rmi_write_be32 of some u32
WriteBe32 ==
    /\ \E v \in U32Samples :
         be32' = [value |-> v, out |-> rmi_write_be32(v), back |-> NotRead]
    /\ UNCHANGED <<written, decoded>>
    /\ UNCHANGED <<netVars, srvVars, nSent, cliVars, ghostVars, nPeer>>

\* rmi_read_be32 of the bytes written
ReadBe32 ==
    /\ be32.out # <<>>
    /\ be32' = [be32 EXCEPT !.back = rmi_read_be32(be32.out)]
    /\ UNCHANGED <<written, decoded>>
    /\ UNCHANGED <<netVars, srvVars, nSent, cliVars, ghostVars, nPeer>>

NextFraming ==
    \/ WriteFrame
    \/ ReadFrame
    \/ WriteBe32
    \/ ReadBe32

SpecFraming == InitFraming /\ [][NextFraming]_vars

\* ------------------------------------------------------------------------
\* Properties of the server's authentication gate
\* ------------------------------------------------------------------------

\* a whole frame lies at the head of the stream; its payload
HasFrame(stream) ==
    /\ Len(stream) >= RMI_FRAME_HEADER_SIZE
    /\ Len(stream) >= RMI_FRAME_HEADER_SIZE + rmi_read_be32(Take(stream, 4))
HeadPayload(stream) ==
    SubSeq(stream, 5, RMI_FRAME_HEADER_SIZE + rmi_read_be32(Take(stream, 4)))

\* the session loop consumes input in this step
ServerReads == sPc = "session" /\ Len(c2s') < Len(c2s)

\* the payload's text, cut at spaces and tabs, starts AUTH l16 l16
IsMatchingAuth(p) ==
    LET t == Tokens(CStr(p))
    IN /\ Len(t) >= 3
       /\ t[1] = RMI_CMD_AUTH
       /\ t[2] = RMI_DEFAULT_USER
       /\ t[3] = RMI_DEFAULT_PASS

\* C1: on one connection every frame read while unauthenticated that is not
\* a matching AUTH is a failed attempt; the 1st and 2nd are answered
\* ERR auth required and the session goes on, the 3rd is answered
\* ERR auth failed, handle_rmi_client returns CONTINUE and the connection is
\* closed.
C1_EveryFrameCounts ==
    [][(ServerReads /\ cOpen /\ ~authed /\ HasFrame(c2s)
          /\ ~IsMatchingAuth(HeadPayload(c2s)))
       => IF nBad + 1 < 3
          THEN /\ s2c' = s2c \o Frame(ERR_auth_required)
               /\ sPc' = "session"
               /\ link' = "up"
          ELSE /\ s2c' = s2c \o Frame(ERR_auth_failed)
               /\ sPc' = "listen"
               /\ sResult' = "CONTINUE"
               /\ link' = "closed"]_vars

\* a command: a frame that fits cmd[1024] and holds a non-empty text
IsCommand(stream) ==
    /\ HasFrame(stream)
    /\ Len(HeadPayload(stream)) > 0
    /\ Len(HeadPayload(stream)) < CMD_BUF_SIZE
    /\ CStr(HeadPayload(stream)) # <<>>

\* C2: while the session is unauthenticated every command other than a
\* matching AUTH is counted as a failed attempt and answered with an auth
\* error; handle_rmi_client returns SHUTDOWN or RESTART only when authed;
\* files, child processes and injected keys do not change before authed;
\* and authed, once true, stays true for the rest of the session.
C2_NoEffectBeforeAuth ==
    [][/\ (ServerReads /\ ~authed /\ IsCommand(c2s)
             /\ ~IsMatchingAuth(HeadPayload(c2s)))
          => /\ attempts' = attempts + 1
             /\ ~authed'
             /\ cOpen => s2c' \in {s2c \o Frame(ERR_auth_required),
                                   s2c \o Frame(ERR_auth_failed)}
       /\ (sPc = "session" /\ sPc' # "session"
             /\ sResult' \in {"SHUTDOWN", "RESTART"}) => authed
       /\ (sPc = "session" /\ sPc' \in {"exited", "restarted"}) => authed
       /\ ~authed => fs' = fs /\ spawned' = spawned /\ keys' = keys
       /\ (authed /\ conns' = conns) => authed']_vars

\* two commands were refused on an unauthenticated session that goes on
C2_Witness ==
    /\ sPc = "session"
    /\ cOpen
    /\ ~authed
    /\ attempts = 2
    /\ s2c = Frame(ERR_auth_required)
    /\ fs \in InitFs
    /\ spawned = 0
    /\ keys = <<>>

\* ------------------------------------------------------------------------
\* Properties of the frames of one command (client and server together)
\* ------------------------------------------------------------------------

\* the ways workerLoop ends a command whose reply it has obtained
Completed ==
    {"Auth", "AuthErr", "ScreencapErr", "ScreencapOk", "Ok", "OkLast", "OkErr", "Version",
     "VersionErr", "List", "ListErr", "DownloadErr", "DownloadOk", "Upload",
     "UploadErr", "Restart", "RestartErr", "Heartbeat", "HeartbeatErr"}

\* the worker has ended a command on a connection on which no receive has
\* failed and the server has cut no data frame short
CommandDone == gOut \in Completed /\ ~gFail /\ ~gPartial

RECURSIVE Beats(_)
Beats(n) == IF n = 0 THEN <<>> ELSE Frame(RMI_CMD_HEARTBEAT) \o Beats(n - 1)

\* what the worker can make of the bytes `stream` in the receive call it is
\* waiting in: status, published results, next position of workerLoop
Results(stream) ==
    {ReplyStep(wPc, cur, o, Snapshot, TRUE) :
        o \in RecvOutcomes(Receive(wPc, stream), stop_, link = "closed")}

\* the bytes left in the socket after the receive call
Position(stream) == Drop(stream, Receive(wPc, stream).used)

\* C4: whatever has arrived for the receive call the worker is waiting in,
\* n HEARTBEAT frames in front of it change neither the result of the
\* command (status, published results, where workerLoop goes on) nor the
\* position left in the stream, and no HEARTBEAT payload is handed to the
\* command as its reply.
C4_HeartbeatTransparency ==
    wPc \in Stages =>
        \A n \in 1..MaxSkip :
            /\ Results(Beats(n) \o s2c) = Results(s2c)
            /\ Position(Beats(n) \o s2c) = Position(s2c)
            /\ Receive(wPc, Beats(n) \o s2c).st = "ok" =>
                  Receive(wPc, Beats(n) \o s2c).payload # RMI_CMD_HEARTBEAT

\* a VERSION reply has been published on a connection whose peer sent a
\* HEARTBEAT frame, and nothing is left in the stream
C4_Witness ==
    /\ beats >= 1
    /\ gOut = "Version"
    /\ ~gFail
    /\ version_info.has_version
    /\ status = "Connected"
    /\ s2c = <<>>

\* the worker waits for the data frame of a download of the path whose
\* upload the server has just acknowledged, and the server's whole answer
\* (OK and the data frame) has been written to a healthy connection
DownloadOfUpload ==
    /\ wPc = "DownloadData"
    /\ gUp # NoUpload
    /\ cur.download_path = gUp.path
    /\ gSrv = 2
    /\ gCli = 1
    /\ ~gFail
    /\ ~gPartial
    /\ ~stop_
    /\ link = "up"

\* C5: an acknowledged UPLOAD of f to x followed by requestDownload(x) ends
\* with the worker Connected and downloads[x] holding exactly f and no
\* error, for every f (the empty file, 9 bytes, the 9 bytes HEARTBEAT).
C5_RoundTrip ==
    [][(DownloadOfUpload /\ wPc' # wPc) =>
          /\ status' = "Connected"
          /\ gUp.path \in DOMAIN downloads'
          /\ downloads'[gUp.path].data = gUp.data
          /\ downloads'[gUp.path].error = NoError]_vars

\* the receive calls that wait for the reply of a command taken from the
\* outbox
CommandStages ==
    {"Screencap", "Ok", "Version", "List", "Download", "DownloadData", "Upload",
     "Restart"}

\* the receive call the worker was waiting in has just failed (deadline,
\* connection closed, recv error, cancellation)
ReceiveFailed == wPc \in CommandStages /\ gOut = "none" /\ gOut' = "fail"

\* C6: when the receive call of a command of any kind fails, the worker
\* sets status Error and terminates (it does not return to the top of its
\* loop, so it sends nothing more on the connection).
C6_ReplyFailureIsFatal ==
    [][ReceiveFailed => (status' = "Error" /\ wPc' = "exited" /\ ~cOpen')]_vars

\* the receive calls that wait for the first frame of a command's reply
ReplyStages == CommandStages \ {"DownloadData"}

\* the worker ends the command it is waiting in with a frame it received
ReplyHandled == wPc \in ReplyStages /\ gOut = "none" /\ gOut' \notin {"none", "fail"}

\* the frame the receive call of the current stage returns starts with ERR
ErrReply ==
    /\ Receive(wPc, s2c).st = "ok"
    /\ rmi_payload_starts_with(Receive(wPc, s2c).payload, RMI_RESP_ERR_PREFIX)

\* C7: a reply that starts with ERR to a command sent after authentication
\* (Ok kind, Screencap, Version, List, Download, upload, restart after
\* upload) leaves the worker Connected with its socket open, back at the
\* top of its loop and not stopped.
C7_ErrReplyNotFatal ==
    [][(ReplyHandled /\ ErrReply) =>
          /\ status' = "Connected"
          /\ cOpen'
          /\ wPc' = "loop"
          /\ ~stop_']_vars

\* the worker has recorded "ERR x" for an Ok-kind command and is back at the
\* top of its loop, Connected
C7_Witness ==
    /\ gOut = "OkErr"
    /\ last_error = Err("", ErrX)
    /\ status = "Connected"
    /\ wPc = "loop"
    /\ cOpen

\* the bytes of `stream` from its first frame that is no HEARTBEAT frame
RECURSIVE ReplyBytes(_)
ReplyBytes(stream) ==
    IF /\ Len(stream) >= Len(Frame(RMI_CMD_HEARTBEAT))
       /\ Take(stream, Len(Frame(RMI_CMD_HEARTBEAT))) = Frame(RMI_CMD_HEARTBEAT)
    THEN ReplyBytes(Drop(stream, Len(Frame(RMI_CMD_HEARTBEAT))))
    ELSE stream

\* the reply's header declares more than the 256 bytes of a text reply
OversizedReply ==
    /\ Len(ReplyBytes(s2c)) >= RMI_FRAME_HEADER_SIZE
    /\ rmi_read_be32(Take(ReplyBytes(s2c), 4)) > ReplyCap

\* the whole payload of the reply, once it has arrived
ReplyPayload ==
    SubSeq(ReplyBytes(s2c), 5, 4 + rmi_read_be32(Take(ReplyBytes(s2c), 4)))

WholeReply ==
    /\ Len(ReplyBytes(s2c)) >= RMI_FRAME_HEADER_SIZE
    /\ Len(ReplyBytes(s2c)) >= 4 + rmi_read_be32(Take(ReplyBytes(s2c), 4))

\* a reply that is neither the success form of the stage nor ERR ...
UnknownReply ==
    /\ WholeReply
    /\ ~rmi_payload_starts_with(ReplyPayload, RMI_RESP_ERR_PREFIX)
    /\ \/ wPc \in {"Ok", "Download", "Upload", "Restart"}
          /\ ~rmi_payload_equals(ReplyPayload, RMI_RESP_OK)
          /\ ~OversizedReply
       \/ wPc = "Version"
          /\ ~rmi_payload_starts_with(ReplyPayload, RMI_RESP_VERSION_PREFIX)
          /\ ~OversizedReply
       \/ wPc = "Screencap"
          /\ Take(ReplyPayload, Len(PngSignature)) # PngSignature

\* a listing with a line that is neither D<TAB>name nor F<TAB>name<TAB>size
MalformedListing ==
    /\ wPc = "List"
    /\ WholeReply
    /\ ReplyPayload = ListingBad

\* the worker leaves the receive call of a command's reply, not cancelled
ReplyReturns ==
    /\ wPc \in ReplyStages
    /\ gOut = "none"
    /\ gOut' # "none"
    /\ ~stop_

\* C8 as stated: a reply of unknown type, an oversized frame or a malformed
\* listing makes the worker set status Error and terminate.
C8_ProtocolErrorsFatal ==
    [][(ReplyReturns /\ (UnknownReply \/ MalformedListing
                          \/ (OversizedReply /\ MaxBytes(wPc) > 0))) =>
          (status' = "Error" /\ wPc' = "exited")]_vars

\* C8 amended: an oversized reply to an Ok-kind command, to DOWNLOAD, to an
\* upload or to the restart after an upload makes the worker set status
\* Error ("Frame size exceeds limit.") and terminate; a reply of unknown
\* type and a malformed listing are recorded and leave the worker Connected
\* at the top of its loop with the socket open.
C8_OnlyOversizedFatal ==
    [][ReplyReturns =>
          /\ (OversizedReply /\ wPc \in {"Ok", "Download", "Upload", "Restart"}) =>
                /\ status' = "Error"
                /\ wPc' = "exited"
                /\ ~cOpen'
                /\ last_error' = Err("Frame size exceeds limit.", <<>>)
          /\ (UnknownReply \/ MalformedListing) =>
                /\ status' = "Connected"
                /\ wPc' = "loop"
                /\ cOpen']_vars

\* an oversized reply to a command has ended the worker
C8_Witness ==
    /\ lastSeq >= 1
    /\ cBeats = 0
    /\ gOut = "fail"
    /\ status = "Error"
    /\ wPc = "exited"
    /\ last_error = Err("Frame size exceeds limit.", <<>>)

\* a local check of an upload fails at the top of the worker's loop
LocalCheckFails == wPc = "loop" /\ lastSeq' # lastSeq /\ gOut' = "LocalErr"

\* the payload of the ERR reply the worker is about to handle
ErrText == Err("", Receive(wPc, s2c).payload)

\* C9 as stated: an ERR reply to a command, or a failed local check of an
\* operation, leaves last_error unchanged.
C9_LastErrorUntouched ==
    [][((ReplyHandled /\ ErrReply) \/ LocalCheckFails) =>
          last_error' = last_error]_vars

\* C9 amended: an ERR reply to LIST or DOWNLOAD goes into the result entry
\* of the path, with a version bump, and leaves last_error unchanged; an ERR
\* reply to any other command and a failed local upload check have no
\* result entry and are written to last_error.
C9_ResultEntryOrLastError ==
    [][/\ (ReplyHandled /\ ErrReply /\ wPc = "Download") =>
             /\ last_error' = last_error
             /\ downloads'[cur.download_path].error = ErrText
             /\ downloads'[cur.download_path].version =
                    MapGet(downloads, cur.download_path, NewDownload).version + 1
       /\ (ReplyHandled /\ ErrReply /\ wPc = "List") =>
             /\ last_error' = last_error
             /\ file_lists'[cur.list_path].error = ErrText
             /\ file_lists'[cur.list_path].version =
                    MapGet(file_lists, cur.list_path, NewFileList).version + 1
       /\ (ReplyHandled /\ ErrReply
              /\ wPc \in {"Ok", "Version", "Screencap", "Upload", "Restart"}) =>
             /\ last_error' = ErrText
             /\ UNCHANGED resVars
       /\ LocalCheckFails =>
             /\ last_error' # NoError
             /\ UNCHANGED resVars]_vars

\* "ERR x" for a download sits in the download's result entry, version 1,
\* and last_error is still empty
C9_Witness ==
    /\ gOut = "DownloadErr"
    /\ last_error = NoError
    /\ status = "Connected"
    /\ \E path \in DOMAIN downloads :
          /\ downloads[path].error = Err("", ErrX)
          /\ downloads[path].version = 1

\* ------------------------------------------------------------------------
\* Properties of the outbox (client and server together)
\* ------------------------------------------------------------------------

\* the worker takes a message from the outbox
Taken == lastSeq' # lastSeq

\* bytes are written to the socket towards the server
Written == Len(c2s') > Len(c2s)

\* C10: the worker takes the messages in the order of the queueMessage
\* calls; it writes a command frame only from the top of its loop with no
\* message in hand (the AUTH frame of a new connection and the RESTART that
\* belongs to an acknowledged upload-and-restart aside), so the command it
\* waits for is always the one it took last; and on a connection without a
\* failed receive or a short frame the server has read the previous command
\* whole and the worker has read its reply whole before the next is taken.
C10_SerializedInOrder ==
    [][/\ Taken =>
             /\ lastSeq' = lastSeq + 1
             /\ wPc = "loop"
             /\ cur = NoMessage
             /\ (~gFail /\ ~gPartial) => (c2s = <<>> /\ ReplyBytes(s2c) = <<>>)
       /\ Written =>
             \/ wPc = "start"
             \/ wPc = "loop" /\ cur = NoMessage
             \/ wPc = "Upload" /\ cur.restart_after_upload /\ cur.seq = lastSeq
       /\ wPc' \in CommandStages => cur'.seq = lastSeq']_vars

\* two commands were queued and the reply of the second has been handled
C10_Witness ==
    /\ nQueued = 2
    /\ lastSeq = 2
    /\ wPc = "loop"
    /\ gOut \in Completed
    /\ ~gFail
    /\ outbox = <<>>

\* ------------------------------------------------------------------------
\* Properties of the published results
\* ------------------------------------------------------------------------

\* what the entries of a path were before a step; a new entry starts from the
\* value-initialised record
OldDownload(path) == MapGet(downloads, path, NewDownload)
OldFileList(path) == MapGet(file_lists, path, NewFileList)

\* C11 as stated: every change of a file_lists entry, of a downloads entry
\* (data, error, total, received, in_progress) or of the screencap's data
\* increments that result's version in the same step.
C11_EveryMutationBumps ==
    [][/\ \A path \in DOMAIN downloads' :
             downloads'[path] # OldDownload(path)
                 => downloads'[path].version = OldDownload(path).version + 1
       /\ \A path \in DOMAIN file_lists' :
             file_lists'[path] # OldFileList(path)
                 => file_lists'[path].version = OldFileList(path).version + 1
       /\ screencap'.png # screencap.png
             => screencap'.version = screencap.version + 1]_vars

\* C11 (amended): a version never decreases and grows by one at a time; every
\* change of a file_lists entry and of the screencap's data increments its
\* version; a downloads entry changes without a new version only by losing
\* its data or its error text (requestDownload's reset, getDownloadResult's
\* move) or in its progress fields, and a new error text or new data always
\* comes with a new version.
C11_StoredResultBumps ==
    [][/\ DOMAIN downloads \subseteq DOMAIN downloads'
       /\ DOMAIN file_lists \subseteq DOMAIN file_lists'
       /\ \A path \in DOMAIN downloads' :
             LET old == OldDownload(path)
                 new == downloads'[path]
             IN  /\ new.version \in {old.version, old.version + 1}
                 /\ new.version = old.version
                       => /\ new.data \in {old.data, <<>>}
                          /\ new.error \in {old.error, NoError}
       /\ \A path \in DOMAIN file_lists' :
             file_lists'[path] # OldFileList(path)
                 => file_lists'[path].version = OldFileList(path).version + 1
       /\ screencap'.version \in {screencap.version, screencap.version + 1}
       /\ screencap'.png # screencap.png
             => screencap'.version = screencap.version + 1]_vars

\* a download's entry stored once with a result and then reset by a second
\* requestDownload: version 1 of the download has been
\* observable with two contents
C11_Witness ==
    /\ \E path \in DOMAIN downloads :
          /\ downloads[path].version = 1
          /\ downloads[path].in_progress
          /\ downloads[path].data = <<>>
    /\ nOps = 2

\* ------------------------------------------------------------------------
\* Properties of the two threads
\* ------------------------------------------------------------------------

\* a step of the thread that calls RmiClient: an operation counted, a
\* connection counted, or disconnect() entering or leaving its join
CallerStep == nOps' # nOps \/ nConn' # nConn \/ uiPc' # uiPc

\* C12 as stated: no operation of the calling thread changes file_lists,
\* downloads, the screencap, the server version or last_error.
C12_WorkerOnlyWriter ==
    [][CallerStep => UNCHANGED <<file_lists, downloads, screencap, version_info,
                                 last_error>>]_vars

\* C12 (amended): an operation of the calling thread leaves file_lists, the
\* screencap's data and version and the server version unchanged, and it
\* changes a downloads entry only by emptying its data or its error text or
\* in its progress fields, never in its version.
C12_CallerWritesLittle ==
    [][CallerStep
         => /\ UNCHANGED <<file_lists, version_info>>
            /\ screencap'.png = screencap.png
            /\ screencap'.version = screencap.version
            /\ \A path \in DOMAIN downloads' :
                  LET old == OldDownload(path)
                      new == downloads'[path]
                  IN  /\ new.version = old.version
                      /\ new.data \in {old.data, <<>>}
                      /\ new.error \in {old.error, NoError}]_vars

\* the calling thread has written a download's entry and last_error while
\* the worker has taken no message yet
C12_Witness ==
    /\ status = "Connected"
    /\ lastSeq = 0
    /\ last_error = Err("File list path is empty.", <<>>)
    /\ \E path \in DOMAIN downloads :
          downloads[path].in_progress /\ downloads[path].version = 0

\* disconnect() returns: its joinWorker has come back
DisconnectReturns == uiPc = "joining" /\ uiPc' = "idle"

\* C13: when disconnect() returns the worker has terminated, and the status
\* is Disconnected unless it was Error when the stop flag was raised.
C13_DisconnectedAfterDisconnect ==
    [][DisconnectReturns
         => /\ wPc' = "none"
            /\ gStop # "Error" => status' = "Disconnected"]_vars

\* the worker thread has returned from workerLoop (or was never started)
Terminated == wPc \in {"none", "exited"}

ConnectCalled == nRefused' # nRefused \/ nConn' # nConn

\* C15: connect() while Connecting or Connected returns false and leaves
\* status, stop flag, worker and last_error as they were; any other connect()
\* finds no live worker, clears the stop flag, sets Connecting and starts
\* the one worker.
C15_ConnectOnceOrNothing ==
    [][ConnectCalled
         => IF status \in {"Connecting", "Connected"}
            THEN /\ nRefused' = nRefused + 1
                 /\ UNCHANGED <<status, stop_, wPc, last_error, nConn>>
            ELSE /\ wPc \in {"none", "exited"}
                 /\ wPc' = "start"
                 /\ stop_' = FALSE
                 /\ status' = "Connecting"
                 /\ nConn' = nConn + 1
                 /\ nRefused' = nRefused]_vars

\* a connect() was refused while the worker of an earlier connect() was
\* connected and last_error held a text
C15_Witness ==
    /\ nRefused = 1
    /\ nConn = 1
    /\ status = "Connected"
    /\ last_error # NoError

\* ------------------------------------------------------------------------
\* Properties of the session's start
\* ------------------------------------------------------------------------

\* the worker leaves the part of workerLoop before its loop
AuthEnds == wPc \in {"start", "auth"} /\ wPc' \notin {"start", "auth"}

\* C16: the status becomes Connected only from Connecting, in the step in
\* which the worker reads OK as the first frame that is not a HEARTBEAT after
\* its AUTH; when the start of the session ends otherwise the status is
\* Error, the worker has terminated, and a terminated worker writes nothing.
C16_ConnectedOnlyAfterOk ==
    [][/\ status' = "Connected" /\ status # "Connected"
           => /\ status = "Connecting"
              /\ wPc = "auth"
              /\ WholeReply
              /\ ReplyPayload = RMI_RESP_OK
       /\ AuthEnds /\ status' # "Connected"
           => /\ status' = "Error"
              /\ wPc' = "exited"
              /\ ~Written
       /\ Terminated => ~Written]_vars

\* the worker has read OK for its AUTH behind a HEARTBEAT and is connected,
\* no message taken from the outbox yet
C16_Witness ==
    /\ status = "Connected"
    /\ gOut = "Auth"
    /\ beats = 1
    /\ lastSeq = 0
    /\ s2c = <<>>

\* ------------------------------------------------------------------------
\* Properties of the heartbeats
\* ------------------------------------------------------------------------

\* the worker writes a HEARTBEAT frame
HeartbeatWritten == Written /\ c2s' = c2s \o Frame(RMI_CMD_HEARTBEAT)

\* sendHeartbeat's receive call returns
HeartbeatAnswered == wPc = "Heartbeat" /\ wPc' # "Heartbeat"

HeartbeatAtHead(stream) == HasFrame(stream) /\ HeadPayload(stream) = RMI_CMD_HEARTBEAT

\* the authenticated server reads a HEARTBEAT command
ServerReadsHeartbeat == ServerReads /\ authed /\ HeartbeatAtHead(c2s)

\* the server's reply to it: OK, or nothing once the client has closed
HeartbeatAcked == s2c' = s2c \o Frame(RMI_RESP_OK) \/ (~cOpen /\ s2c' = s2c)

\* the bytes a step appends to the client's output
WrittenBytes == Drop(c2s', Len(c2s))

\* a step of the idle worker that is not the end of its loop
IdleWorkerMoves == wPc = "loop" /\ ~stop_ /\ (wPc' # wPc \/ Taken)

\* C18 as stated: the authenticated server answers a HEARTBEAT with OK, and
\* the idle worker with the server's HEARTBEAT waiting reads it and answers
\* it with OK.
C18_IdleHeartbeatAcknowledged ==
    [][/\ ServerReadsHeartbeat => HeartbeatAcked
       /\ IdleWorkerMoves /\ HeartbeatAtHead(s2c)
           => /\ s2c' = Drop(s2c, Len(Frame(RMI_CMD_HEARTBEAT)))
              /\ WrittenBytes = Frame(RMI_RESP_OK)]_vars

\* C18 (amended): the authenticated server answers a HEARTBEAT with OK; the
\* worker reads nothing while it is idle and never writes an OK frame, so the
\* server's HEARTBEAT stays unread until a receive call skips it.
C18_OnlyServerAcknowledges ==
    [][/\ ServerReadsHeartbeat => HeartbeatAcked
       /\ wPc = "loop" => Take(s2c', Len(s2c)) = s2c
       /\ Written => WrittenBytes # Frame(RMI_RESP_OK)]_vars

\* the server has answered the worker's HEARTBEAT, and its own idle HEARTBEAT
\* lies unread before the idle worker
C18_Witness ==
    /\ status = "Connected"
    /\ wPc = "loop"
    /\ gOut = "Heartbeat"
    /\ cBeats = 1
    /\ s2c = Frame(RMI_CMD_HEARTBEAT)

\* ------------------------------------------------------------------------
\* Properties of the server's keyword dispatch
\* ------------------------------------------------------------------------

\* the command text read_command hands to the session loop
HeadCommand == CStr(HeadPayload(c2s))

\* the authenticated session loop reads a command that fits its buffer
CommandRead ==
    /\ ServerReads
    /\ authed
    /\ HasFrame(c2s)
    /\ Len(HeadPayload(c2s)) < CMD_BUF_SIZE
    /\ Tokens(HeadCommand) # <<>>

\* the step answers with this text and nothing else
AnsweredWith(text) == s2c' = s2c \o Frame(text) \/ (~cOpen /\ s2c' = s2c)

\* "ERR open"
ERR_open == RMI_RESP_ERR_PREFIX \o <<32, 111, 112, 101, 110>>

\* C19: an authenticated OPEN <package> is answered with OK or with
\* ERR open, and with nothing else.
C19_OpenAnswered ==
    [][CommandRead /\ Tokens(HeadCommand)[1] = RMI_CMD_OPEN
           /\ Len(Tokens(HeadCommand)) = 2
         => AnsweredWith(RMI_RESP_OK) \/ AnsweredWith(ERR_open)]_vars

\* the keywords of the authenticated session loop
Keywords ==
    {RMI_CMD_QUIT, RMI_CMD_RESTART, RMI_CMD_VERSION, RMI_CMD_HEARTBEAT,
     RMI_CMD_PRESS, RMI_CMD_PRESS_INPUT, RMI_CMD_UPLOAD, RMI_CMD_LIST,
     RMI_CMD_DOWNLOAD, RMI_CMD_DELETE, RMI_CMD_SCREENCAP}

\* C20: a command whose first token is none of the keywords is answered
\* with ERR unknown command and changes neither the files nor the keys
\* pressed nor the processes started, and does not end the session.
C20_ExactKeywords ==
    [][CommandRead /\ Tokens(HeadCommand)[1] \notin Keywords
         => /\ AnsweredWith(ERR_unknown_command)
            /\ UNCHANGED <<fs, keys, spawned, sPc>>]_vars

\* ------------------------------------------------------------------------
\* Properties of the server's commands
\* ------------------------------------------------------------------------

\* the arguments of the command the session loop reads
Arg(i) == Tokens(HeadCommand)[i]
KeywordRead(kw, nargs) ==
    /\ CommandRead
    /\ Len(Tokens(HeadCommand)) = nargs + 1
    /\ Arg(1) = kw

\* C21: a PRESS whose keycode is the decimal text of a negative integer is
\* answered with ERR press and no key is written to the input device.
C21_NegativePressRefused ==
    [][KeywordRead(RMI_CMD_PRESS, 1) /\ IsNegative(Arg(2))
           /\ AllDigits(Magnitude(Arg(2)))
           /\ DecLeq(Magnitude(Arg(2)), DEC_LONG_MIN_MAG)
         => /\ AnsweredWith(ERR_press)
            /\ keys' = keys]_vars

\* what follows the command frame in the server's input
AfterCommand == Drop(c2s, RMI_FRAME_HEADER_SIZE + Len(HeadPayload(c2s)))

\* the session loop reads an UPLOAD whose line parses and whose data frame
\* has arrived whole
UploadRead ==
    /\ KeywordRead(RMI_CMD_UPLOAD, 2)
    /\ strtoul_u32(Arg(3)).ok
    /\ HasFrame(AfterCommand)

\* C22: when such an UPLOAD is answered with ERR upload, the server has
\* consumed the command frame and the whole data frame, no more and no less.
C22_AlignedAfterFailedUpload ==
    [][UploadRead /\ s2c' = s2c \o Frame(ERR_upload)
         => c2s' = Drop(AfterCommand,
                        RMI_FRAME_HEADER_SIZE + Len(HeadPayload(AfterCommand)))]_vars

\* C23: an UPLOAD to the server's own binary path leaves the file at that
\* path as it was, or replaces it as a whole by the staged file: mode 0777,
\* all bytes of a data frame of the announced size, the staging file gone
\* and OK sent; with any other reply the file is unchanged.
C23_SelfUploadStaged ==
    [][KeywordRead(RMI_CMD_UPLOAD, 2) /\ Arg(2) = SELF_BINARY
         => \/ fs'[SELF_BINARY] = fs[SELF_BINARY]
            \/ /\ strtoul_u32(Arg(3)).ok
               /\ HasFrame(AfterCommand)
               /\ Len(HeadPayload(AfterCommand)) = strtoul_u32(Arg(3)).val
               /\ fs'[SELF_BINARY] = FileEntry(511, HeadPayload(AfterCommand))
               /\ fs'[NewPath(SELF_BINARY)] = NoEntry
               /\ AnsweredWith(RMI_RESP_OK)]_vars

\* the binary of mode 0755 has been replaced by an uploaded one of mode 0777
\* and no staging file is left
C23_Witness ==
    /\ umask = 63
    /\ fs[SELF_BINARY] = FileEntry(511, <<1, 2>>)
    /\ fs[NewPath(SELF_BINARY)] = NoEntry

\* the session loop reads the command RESTART
RestartRead == CommandRead /\ HeadCommand = RMI_CMD_RESTART

\* C24: a RESTART is answered with OK and ends the session with RESTART
\* only when /data/local/tmp/rmi is at that moment a regular file of mode
\* 0777; otherwise it is answered with ERR restart, the server does not
\* re-execute and the session stays open and authenticated.
C24_RestartOnlyWhenExecutable ==
    [][RestartRead
         => \/ /\ AnsweredWith(RMI_RESP_OK)
               /\ sPc' = "restarted"
               /\ sResult' = "RESTART"
               /\ Exists(fs, SELF_BINARY)
               /\ fs[SELF_BINARY].kind = "file"
               /\ fs[SELF_BINARY].mode = 511
            \/ /\ AnsweredWith(ERR_restart)
               /\ sPc' = "session"
               /\ authed'
               /\ UNCHANGED <<link, sResult, fs, conns>>]_vars

\* the server has re-executed itself over a binary of mode 0777
C24_Witness ==
    /\ sPc = "restarted"
    /\ sResult = "RESTART"
    /\ fs[SELF_BINARY].mode = 511

\* the session loop reads the command QUIT
QuitRead == CommandRead /\ HeadCommand = RMI_CMD_QUIT

\* handle_rmi_client returns
SessionEnds == sPc = "session" /\ sPc' # "session"

\* C25: the accept loop stops only after an authenticated QUIT or an
\* accepted RESTART; after every other end of a session the client is
\* closed and the server listens again; a connection is up only while the
\* one session runs.
C25_StopsOnlyAfterQuitOrRestart ==
    [][/\ (sPc' \in {"exited", "restarted"} /\ sPc' # sPc)
             => (QuitRead \/ RestartRead)
       /\ (SessionEnds /\ ~(QuitRead \/ RestartRead))
             => (sPc' = "listen" /\ link' = "closed")
       /\ (link' = "up" => sPc' = "session")]_vars

\* C26: with the peer still there, a whole frame read by the server ends
\* the session only when it is the third failed authentication, a QUIT or
\* an accepted RESTART; after every other frame the connection stays up.
C26_FramesKeepSession ==
    [][ServerReads /\ HasFrame(c2s) /\ cOpen /\ SessionEnds
         => \/ ~authed /\ attempts' >= 3
            \/ QuitRead
            \/ RestartRead]_vars

\* the session loop reads DOWNLOAD <path> from a peer that is still there
DownloadRead == KeywordRead(RMI_CMD_DOWNLOAD, 1) /\ cOpen

\* C27: a DOWNLOAD is answered either with OK and one whole data frame
\* holding the file, or with the single frame ERR download.
C27_OneReplySequence ==
    [][DownloadRead
         => \/ s2c' = s2c \o Frame(ERR_download)
            \/ /\ Exists(fs, Arg(2))
               /\ s2c' = s2c \o Frame(RMI_RESP_OK) \o Frame(fs[Arg(2)].data)]_vars

\* the session loop reads SCREENCAP from a peer that is still there
ScreencapRead == CommandRead /\ HeadCommand = RMI_CMD_SCREENCAP /\ cOpen

\* C28: a SCREENCAP is answered with the frame ERR screencap, or with one
\* frame holding all that a screencap child which ran to a successful end
\* printed; a child that could not be executed or that failed yields
\* ERR screencap.
C28_ScreencapFailureReported ==
    [][ScreencapRead
         => \/ s2c' = s2c \o Frame(ERR_screencap)
            \/ s2c' = s2c \o Frame(PngGood)
            \/ s2c' = s2c \o Frame(PngBad)]_vars

\* ------------------------------------------------------------------------
\* Properties of the framing
\* ------------------------------------------------------------------------

\* rmi_read_be32 undoes rmi_write_be32
Be32RoundTrip == be32.back # NotRead => be32.back = be32.value

\* C29: rmi_read_be32 returns the value rmi_write_be32 was given, and
\* every frame written is decoded by receiveFrame to exactly its payload,
\* the frames in the order written.
C29_EveryPayloadDecoded ==
    [][/\ Be32RoundTrip'
       /\ (written # <<>> /\ (decoded' # decoded \/ written' # written)
             /\ Len(written') <= Len(written))
            => /\ decoded'.st = "ok"
               /\ decoded'.payload = Head(written)
               /\ written' = Tail(written)]_vars

\* C29 with the reader's limit: rmi_read_be32 returns the value
\* rmi_write_be32 was given; receiveFrame decodes the oldest frame written
\* to exactly its payload, the frames in the order written, unless the
\* reader has a limit (max_bytes > 0) and the payload is longer than it,
\* in which case the frame is refused and nothing is decoded.
C29_PayloadWithinLimitDecoded ==
    [][/\ Be32RoundTrip'
       /\ (written # <<>> /\ (decoded' # decoded \/ written' # written)
             /\ Len(written') <= Len(written))
            => IF decoded'.max_bytes > 0 /\ Len(Head(written)) > decoded'.max_bytes
               THEN decoded'.st = "limit" /\ decoded'.payload = <<>>
               ELSE /\ decoded'.st = "ok"
                    /\ decoded'.payload = Head(written)
                    /\ written' = Tail(written)]_vars

\* the second of two frames was read under the limit it just fits, after an
\* empty first frame, and a u32 above 2^24 was read back
C29_Witness ==
    /\ decoded = [st |-> "ok", payload |-> AtCap, max_bytes |-> ReplyCap]
    /\ written = <<RMI_CMD_HEARTBEAT>>
    /\ be32.value = 16777216
    /\ be32.back = 16777216

\* ------------------------------------------------------------------------
\* Properties of the listings
\* ------------------------------------------------------------------------

\* the worker ends a LIST command with the reply it received
ListReplied == wPc = "List" /\ gOut = "none" /\ gOut' \in {"List", "ListErr"}

\* C30: a LIST reply raises the version of the requested path's entry by
\* one and leaves every other entry as it was; a well-formed listing
\* replaces the entries and clears the error, any other reply clears the
\* entries and stores a non-empty error.
C30_ListReplyBumpsOnce ==
    [][ListReplied
         => LET path == cur.list_path
                old == OldFileList(path)
                parsed == parseFileListPayload(ReplyPayload)
            IN /\ DOMAIN file_lists' = DOMAIN file_lists \cup {path}
               /\ file_lists'[path].version = old.version + 1
               /\ \A q \in DOMAIN file_lists \ {path} : file_lists'[q] = file_lists[q]
               /\ IF parsed.ok
                  THEN /\ file_lists'[path].entries = parsed.entries
                       /\ file_lists'[path].error = NoError
                  ELSE /\ file_lists'[path].entries = <<>>
                       /\ file_lists'[path].error # NoError]_vars

\* the second reply for a path listed twice did not parse and was stored
C30_Witness ==
    \E path \in DOMAIN file_lists :
        /\ file_lists[path].version = 2
        /\ file_lists[path].entries = <<>>
        /\ file_lists[path].error = Err("Unknown list entry type.", <<>>)
        /\ gOut = "ListErr"

\* ------------------------------------------------------------------------
\* Properties of the client's command flows
\* ------------------------------------------------------------------------

\* the worker handles the reply to a QUIT or a RESTART
LastReplyHandled == ReplyHandled /\ wPc = "Ok" /\ cur.disconnect_after_ok

\* C31: when the reply to a message with disconnect_after_ok is exactly OK
\* the worker sets Disconnected, stops and closes the socket without
\* writing, whatever is queued; after any other reply it stays Connected
\* and returns to its loop; a worker that has ended writes nothing more on
\* that connection.
C31_DisconnectAfterOk ==
    [][/\ LastReplyHandled
            => IF ReplyPayload = RMI_RESP_OK
               THEN /\ status' = "Disconnected"
                    /\ stop_'
                    /\ ~cOpen'
                    /\ wPc' = "exited"
                    /\ c2s' = c2s
                    /\ outbox' = outbox
               ELSE /\ status' = "Connected"
                    /\ cOpen'
                    /\ wPc' = "loop"
                    /\ c2s' = c2s
                    /\ outbox' = outbox
       /\ (wPc = "exited" /\ nConn' = nConn) => Len(c2s') <= Len(c2s)]_vars

\* the worker has left after OK to its QUIT or RESTART with a message
\* still queued
C31_Witness ==
    /\ wPc = "exited"
    /\ gOut = "OkLast"
    /\ stop_
    /\ status = "Disconnected"
    /\ ~cOpen
    /\ outbox # <<>>

\* the worker starts an upload
UploadTaken == wPc = "loop" /\ wPc' = "Upload"

\* what the worker writes after the first frame of this step
AfterFirstWritten ==
    Drop(WrittenBytes, RMI_FRAME_HEADER_SIZE + Len(HeadPayload(WrittenBytes)))

\* C32: an upload is written as the frame UPLOAD <remote> <size> and, next
\* to it, one data frame of <size> bytes; the RESTART of an upload with
\* restart_after_upload is written only on OK to the upload; any other
\* reply to the upload leaves the worker Connected with nothing written;
\* OK to that RESTART makes the status Disconnected.
C32_UploadThenRestart ==
    [][/\ UploadTaken
            => /\ HasFrame(WrittenBytes)
               /\ Tokens(HeadPayload(WrittenBytes))
                     = <<RMI_CMD_UPLOAD, cur'.upload_remote_path,
                         ToDecimal(Len(LocalData(cur'.upload_local_path)))>>
               /\ HasFrame(AfterFirstWritten)
               /\ HeadPayload(AfterFirstWritten) = LocalData(cur'.upload_local_path)
               /\ Len(AfterFirstWritten)
                     = RMI_FRAME_HEADER_SIZE + Len(LocalData(cur'.upload_local_path))
       /\ (wPc' = "Restart" /\ wPc # "Restart")
            => /\ wPc = "Upload"
               /\ cur.restart_after_upload
               /\ WholeReply
               /\ ReplyPayload = RMI_RESP_OK
               /\ WrittenBytes = Frame(RMI_CMD_RESTART)
       /\ (wPc = "Upload" /\ ReplyHandled /\ ReplyPayload # RMI_RESP_OK)
            => /\ WrittenBytes = <<>>
               /\ status' = "Connected"
               /\ wPc' = "loop"
               /\ cOpen'
       /\ (wPc = "Restart" /\ ReplyHandled /\ ReplyPayload = RMI_RESP_OK)
            => /\ status' = "Disconnected"
               /\ wPc' = "exited"]_vars

\* the worker has left after OK to the RESTART that followed its upload
C32_Witness ==
    /\ gOut = "Restart"
    /\ wPc = "exited"
    /\ status = "Disconnected"
    /\ stop_

\* ------------------------------------------------------------------------
\* Properties of the heartbeat exchange
\* ------------------------------------------------------------------------

\* the worker's heartbeat ends with the server's reply to it
HeartbeatReplied ==
    /\ wPc = "Heartbeat"
    /\ gOut' \in {"Heartbeat", "HeartbeatErr"}
    /\ ReplyPayload = RMI_RESP_OK

SelfUploadAccepted ==
    /\ KeywordRead(RMI_CMD_UPLOAD, 2)
    /\ Arg(2) = SELF_BINARY
    /\ s2c' = s2c \o Frame(RMI_RESP_OK)

\* /data/local/tmp/rmi is a regular file of mode 0777
SelfBinaryReady(f) ==
    /\ Exists(f, SELF_BINARY)
    /\ f[SELF_BINARY].kind = "file"
    /\ f[SELF_BINARY].mode = 511

C35_MailboxEmptyAtStart == (wPc = "start") => outbox = <<>>

\* ---- Properties of the pairing of replies with commands ----

\* the worker writes a command (or its own HEARTBEAT) and starts to wait for
\* the reply
CommandSent == wPc = "loop" /\ wPc' \in CommandStages \cup {"Heartbeat"}

\* C36: the frame the worker takes as the reply to a command was written by
\* the server in response to that command: when the worker writes a command,
\* the server has answered every earlier command and the worker has read
\* every one of those answers, so that no reply to an earlier command can
\* be read as the reply to this one.
C36_RepliesPairedWithCommands ==
    [][CommandSent => (c2s = <<>> /\ ReplyBytes(s2c) = <<>>)]_vars

\* ---- Properties of the download entries ----

\* a DOWNLOAD for path is in the mailbox or is the command a live worker is
\* handling
DownloadPending(path) ==
    \/ \E i \in 1..Len(outbox) :
          outbox[i].response = "Download" /\ outbox[i].download_path = path
    \/ /\ wPc \in {"Download", "DownloadData"}
       /\ cur.download_path = path

\* received never exceeds total in any downloads entry
ReceivedWithinTotal ==
    \A path \in DOMAIN downloads : downloads[path].received <= downloads[path].total

\* C37: a downloads entry has in_progress set only while a DOWNLOAD for its
\* path is queued or being handled by a live worker, no entry has it set
\* once the worker has terminated, and received <= total in every entry.
C37_InProgressOnlyWhilePending ==
    /\ \A path \in DOMAIN downloads :
          downloads[path].in_progress
              => (wPc \notin {"none", "exited"} /\ DownloadPending(path))
    /\ ReceivedWithinTotal

\* ---- Properties of the status after the worker's end ----

\* C38: when the worker has terminated the status is Disconnected or Error:
\* every step that ends the worker leaves one of the two, and a status of
\* Error is never replaced by Disconnected, neither by the worker's exit
\* path nor by disconnect().
C38_StatusAfterWorkerEnd ==
    [][/\ wPc' \in {"none", "exited"}
            => status' \in {"Disconnected", "Error"}
       /\ status = "Error" => status' # "Disconnected"]_vars

\* disconnect() has returned after a worker that ended in Error, and the
\* status is still Error
C38_Witness ==
    /\ status = "Error"
    /\ stop_
    /\ wPc = "none"
    /\ uiPc = "idle"
    /\ nConn > 0

\* ---- Properties of crossing heartbeats ----

\* the worker waits for the reply to the frame it sent, the server's idle
\* HEARTBEAT lies unread in front of that reply, and no earlier failure has
\* left the stream out of step
Crossed ==
    /\ wPc \in ReplyStages \cup {"Heartbeat"}
    /\ HeartbeatAtHead(s2c)
    /\ WholeReply
    /\ ~gFail
    /\ ~gPartial
    /\ sPc = "session"

\* the worker's receive call returns with a frame
FrameReceived == wPc' # wPc /\ gOut' # "fail"

\* C39: when the server's idle HEARTBEAT and a frame of the worker cross on
\* an authenticated session, neither side is blocked (the server can read
\* the worker's frame, the worker's receive call can return); the receive
\* call discards the HEARTBEAT and consumes exactly the reply behind it, and
\* the worker goes on as it would on that reply alone; after the OK to its
\* own HEARTBEAT the worker is back in its loop, Connected, and the server
\* is still in its authenticated session loop.
C39_CrossingHeartbeats ==
    [][/\ (wPc \in ReplyStages \cup {"Heartbeat"} /\ HeartbeatAtHead(s2c)
             /\ HasFrame(c2s) /\ sPc = "session") => ~SrvWaiting
       /\ Crossed
            => \E o \in RecvOutcomes(Receive(wPc, s2c), FALSE, link = "closed") :
                  o.ok /\ o.payload = ReplyPayload
       /\ (Crossed /\ FrameReceived)
            => /\ s2c' = Drop(ReplyBytes(s2c),
                              Receive(wPc, ReplyBytes(s2c)).used)
               /\ \E n \in Results(ReplyBytes(s2c)) :
                     /\ status' = n.cl.status
                     /\ last_error' = n.cl.last_error
                     /\ wPc' = n.wPc
               /\ (wPc = "Heartbeat" /\ ReplyPayload = RMI_RESP_OK)
                     => /\ status' = "Connected"
                        /\ wPc' = "loop"
                        /\ cOpen'
                        /\ s2c' = Drop(ReplyBytes(s2c), Len(Frame(RMI_RESP_OK)))
                        /\ sPc' = "session"
                        /\ authed']_vars

\* the worker's HEARTBEAT and the server's have crossed in a session with
\* no other command; the worker has skipped the server's, read the OK to
\* its own and is back in its loop
C39_Witness ==
    /\ nConn = 1
    /\ nQueued = 0
    /\ beats = 1
    /\ cBeats = 1
    /\ gOut = "Heartbeat"
    /\ wPc = "loop"
    /\ status = "Connected"
    /\ sPc = "session"
    /\ authed
    /\ s2c = <<>>
    /\ c2s = <<>>

\* ---- Properties of the server's heartbeat ----

\* the server writes its idle HEARTBEAT
ServerBeats == beats' # beats

\* the step answers a DOWNLOAD with OK and goes on to the data frame
DownloadAccepted ==
    /\ DownloadRead
    /\ Exists(fs, Arg(2))
    /\ Len(s2c') >= Len(s2c) + Len(Frame(RMI_RESP_OK))
    /\ Take(s2c', Len(s2c) + Len(Frame(RMI_RESP_OK))) = s2c \o Frame(RMI_RESP_OK)

\* C40: the server writes its HEARTBEAT only from the session loop with no
\* command to read, as one whole frame behind the frames written before;
\* a step that reads a command writes no HEARTBEAT, and behind the OK of a
\* DOWNLOAD the next bytes written are the data frame's header and the
\* file's bytes (and, when reading the file fails, ERR download).
C40_HeartbeatAtCommandBoundary ==
    [][/\ ServerBeats
            => /\ sPc = "session"
               /\ c2s = <<>>
               /\ s2c' = s2c \o Frame(RMI_CMD_HEARTBEAT)
               /\ UNCHANGED <<c2s, sPc, authed, attempts, fs>>
       /\ ServerReads => beats' = beats
       /\ DownloadAccepted
            => \E n \in 0..Len(fs[Arg(2)].data) :
               \E last \in {<<>>, Frame(ERR_download)} :
                  s2c' = s2c \o Frame(RMI_RESP_OK)
                             \o rmi_write_be32(Len(fs[Arg(2)].data))
                             \o Take(fs[Arg(2)].data, n)
                             \o last]_vars

\* the server has answered a DOWNLOAD with OK and the whole file and has
\* then, idle, written its HEARTBEAT behind the data frame
C40_Witness ==
    /\ beats = 1
    /\ \E path \in FsPaths :
          /\ Exists(fs, path)
          /\ fs[path].kind = "file"
          /\ s2c = Frame(RMI_RESP_OK) \o Frame(fs[path].data)
                       \o Frame(RMI_CMD_HEARTBEAT)

====